---- MODULE Spec2Model ----
(***************************************************************************)
(* The attachment browser of recvattach.c: the flattening of a MIME body   *)
(* tree into the attachment index (mutt_gen_attach_list, mutt_update_tree),*)
(* collapsing (attach_collapse), the decryption chain and the main loop of *)
(* mutt_view_attachments, and the view loop (mutt_attach_display_loop).    *)
(*                                                                         *)
(* Pointers are numbers: a Body is its id (1, 2, ...), a NULL Body is 0;   *)
(* an AttachPtr is the slot of idx that holds it (0, 1, ...), since the    *)
(* code allocates one AttachPtr per slot and never moves it, and a NULL    *)
(* AttachPtr is -1.  MIME types are strings and subtypes sequences of      *)
(* characters; the parent_type the code passes as -1 for the top level is  *)
(* the string "top".                                                       *)
(***************************************************************************)
EXTENDS Integers, Sequences, FiniteSets, TLC

(* ------------------------------ bounds -------------------------------- *)

\* Bodies in the message tree that a session views.
MaxBody == 3

\* Bodies in a tree handed to mutt_gen_attach_list on its own.
MaxBodyF == 4

\* Bodies in a message of a mailbox that cannot be written (read-only, POP,
\* NNTP).
MaxBodyRO == 2

\* Content-type edits in one session.
MaxEdits == 1

\* Bodies in a tree handed to a save or a print of the attachment menu.
MaxBodyS == 4

\* Levels of the deepest chain of message/rfc822 bodies handed to
\* mutt_gen_attach_list: its entries have the levels 0..DeepLevels-1.
DeepLevels == 128

(* ------------------------- program constants -------------------------- *)

\* sizeof(buf) in mutt_update_tree: char buf[STRING]
SizeofBuf == 256

\* idx grows by this many slots at a time
IdxGrow == 5

\* The build: both crypto backends compiled in.
WithCrypto == {"APPLICATION_PGP", "APPLICATION_SMIME"}

TYPEMULTIPART == "multipart"

TYPEMESSAGE == "message"

TYPETEXT == "text"

TYPEAPPLICATION == "application"

TYPEOTHER == "other"

VARIABLES
  body,          \* Body id -> struct Body (the fields the browser reads or writes)
  hdr,           \* struct Header: content, security, attach_del, changed
  Context,       \* the open mailbox: readonly, magic; or "NULL"
  passphrase,    \* whether crypt_valid_passphrase finds a valid passphrase
  pc,            \* where mutt_view_attachments (or a flatten call) stands
  ret,           \* how mutt_view_attachments returned
  msg,           \* the backing message: "none", "open", "closed"
  need_secured,
  secured,
  fp,            \* "NULL", "msg" (msg->fp) or the file of a decryption, "f1", "f2"
  cur,           \* root Body of the tree shown (0: NULL)
  decs,          \* the (file, body) pairs the decryption calls produced so far
  idx,           \* slot -> AttachPtr (or an empty slot)
  idxlen,
  idxmax,
  menu,          \* "none" before mutt_new_menu / after mutt_menu_destroy, else a record
  op,            \* the operation the main loop holds (OP_NULL: fetch from the menu)
  compose,       \* the compose argument of mutt_gen_attach_list
  hist           \* what the session did, for stating the claims: see Hist0

vars == <<body, hdr, Context, passphrase, pc, ret, msg, need_secured, secured,
          fp, cur, decs, idx, idxlen, idxmax, menu, op, compose, hist>>

(* ------------------------------ strings ------------------------------- *)

\* A string is the sequence of its characters.

\* tolower(c)
ToLower(c) ==
  CASE c = "A" -> "a" [] c = "B" -> "b" [] c = "C" -> "c" [] c = "D" -> "d"
    [] c = "E" -> "e" [] c = "F" -> "f" [] c = "G" -> "g" [] c = "H" -> "h"
    [] c = "I" -> "i" [] c = "J" -> "j" [] c = "K" -> "k" [] c = "L" -> "l"
    [] c = "M" -> "m" [] c = "N" -> "n" [] c = "O" -> "o" [] c = "P" -> "p"
    [] c = "Q" -> "q" [] c = "R" -> "r" [] c = "S" -> "s" [] c = "T" -> "t"
    [] c = "U" -> "u" [] c = "V" -> "v" [] c = "W" -> "w" [] c = "X" -> "x"
    [] c = "Y" -> "y" [] c = "Z" -> "z"
    [] OTHER -> c

\* The string with tolower() applied to every character, as mutt_strcasecmp
\* compares it.
Lower(s) == [i \in DOMAIN s |-> ToLower(s[i])]

\* The subtypes and the string literals of the code.
Str ==
  [ mixed |-> <<"m", "i", "x", "e", "d">>,
    alternative |-> <<"a", "l", "t", "e", "r", "n", "a", "t", "i", "v", "e">>,
    Alternative |-> <<"A", "l", "t", "e", "r", "n", "a", "t", "i", "v", "e">>,
    digest |-> <<"d", "i", "g", "e", "s", "t">>,
    DIGEST |-> <<"D", "I", "G", "E", "S", "T">>,
    encrypted |-> <<"e", "n", "c", "r", "y", "p", "t", "e", "d">>,
    rfc822 |-> <<"r", "f", "c", "8", "2", "2">>,
    news |-> <<"n", "e", "w", "s">>,
    plain |-> <<"p", "l", "a", "i", "n">>,
    html |-> <<"h", "t", "m", "l">>,
    pdf |-> <<"p", "d", "f">>,
    pkcs7_mime |-> <<"p", "k", "c", "s", "7", "-", "m", "i", "m", "e">>,
    pgp_encrypted |-> <<"p", "g", "p", "-", "e", "n", "c", "r", "y", "p", "t", "e", "d">>,
    octet_stream |-> <<"o", "c", "t", "e", "t", "-", "s", "t", "r", "e", "a", "m">>,
    postscript |-> <<"p", "o", "s", "t", "s", "c", "r", "i", "p", "t">>,
    text_plain |-> <<"t", "e", "x", "t", "/", "p", "l", "a", "i", "n">>,
    application_postscript |-> <<"a", "p", "p", "l", "i", "c", "a", "t", "i", "o", "n", "/", "p", "o", "s", "t", "s", "c", "r", "i", "p", "t">> ]


\* mutt_strcasecmp(a, b) == 0: the strings have the same length and agree,
\* character by character, after tolower().
StrCaseEq(a, b) ==
  /\ Len(a) = Len(b)
  /\ \A i \in 1..Len(a) : ToLower(a[i]) = ToLower(b[i])

(* --------------------------- the Body tree ---------------------------- *)

Kind(t, s) == [type |-> t, subtype |-> s]

InternalKinds ==
  { Kind(TYPEMULTIPART, Str.mixed), Kind(TYPEMULTIPART, Str.alternative),
    Kind(TYPEMULTIPART, Str.DIGEST), Kind(TYPEMESSAGE, Str.rfc822) }

LeafKinds == { Kind(TYPETEXT, Str.plain) }

\* par[i]: the parent of body i (0 for the root, body 1).  Bodies are numbered in
\* document order, so the parent of i is i-1 or one of the ancestors of i-1.
RECURSIVE AncestorsOrSelf(_, _)
AncestorsOrSelf(par, i) ==
  IF i = 0 THEN {} ELSE {i} \cup AncestorsOrSelf(par, par[i])

Shapes(n) ==
  { par \in [1..n -> 0..(n-1)] :
      /\ par[1] = 0
      /\ \A i \in 2..n : par[i] \in AncestorsOrSelf(par, i - 1) }

Children(n, par, i) == { j \in 1..n : par[j] = i }

Min(S) == CHOOSE x \in S : \A y \in S : x <= y

\* struct Body of body i of the tree (n, par, kind), as the parser leaves it.
NewBody(n, par, kind, i) ==
  LET kids == Children(n, par, i)
      sibs == { j \in Children(n, par, par[i]) : j > i }
  IN [ type |-> kind[i].type,
       subtype |-> kind[i].subtype,
       parts |-> IF kids = {} THEN 0 ELSE Min(kids),
       next |-> IF par[i] = 0 \/ sibs = {} THEN 0 ELSE Min(sibs),
       tagged |-> FALSE,
       collapsed |-> FALSE,
       deleted |-> FALSE,
       aptr |-> -1 ]

TreesUpTo(n, internal, leaf) ==
  LET KindsOf(k, par) ==
        { kind \in [1..k -> internal \cup leaf] :
            \A i \in 1..k :
              IF Children(k, par, i) = {} THEN kind[i] \in leaf ELSE kind[i] \in internal }
      TreesOfSize(k) ==
        UNION { { [i \in 1..k |-> NewBody(k, par, kind, i)] : kind \in KindsOf(k, par) } :
                  par \in Shapes(k) }
  IN UNION { TreesOfSize(k) : k \in 1..n }

\* A tree given by its parent and kind sequences.
TreeOf(par, kind) ==
  [i \in 1..Len(par) |-> NewBody(Len(par), par, kind, i)]

\* spec.md section 8, scenario 1: multipart/alternative [text/plain, text/html]
ScenarioAlternative ==
  TreeOf(<<0, 1, 1>>,
         <<Kind(TYPEMULTIPART, Str.alternative), Kind(TYPETEXT, Str.plain),
           Kind(TYPETEXT, Str.html)>>)

\* spec.md section 8, scenario 2:
\* multipart/mixed [multipart/alternative [text/plain, text/html], application/pdf]
ScenarioMixed ==
  TreeOf(<<0, 1, 2, 2, 1>>,
         <<Kind(TYPEMULTIPART, Str.mixed), Kind(TYPEMULTIPART, Str.alternative),
           Kind(TYPETEXT, Str.plain), Kind(TYPETEXT, Str.html),
           Kind(TYPEAPPLICATION, Str.pdf)>>)

\* A message that holds a message that holds a message ...: DeepLevels
\* bodies, each message/rfc822 with the next one as its only part, the last
\* one text/plain.
DeepChain ==
  TreeOf([i \in 1..DeepLevels |-> i - 1],
         [i \in 1..DeepLevels |->
            IF i < DeepLevels THEN Kind(TYPEMESSAGE, Str.rfc822)
            ELSE Kind(TYPETEXT, Str.plain)])

\* The bodies of the tree under (and including) the sibling chain that starts at m.
RECURSIVE Reachable(_, _)
Reachable(b, m) ==
  IF m = 0 THEN {}
  ELSE {m} \cup Reachable(b, b[m].parts) \cup Reachable(b, b[m].next)

\* The sibling chain that starts at m.
RECURSIVE Chain(_, _)
Chain(b, m) == IF m = 0 THEN {} ELSE {m} \cup Chain(b, b[m].next)

\* The body whose parts chain holds m (0: m is on the top-level chain).
ParentOf(b, m) ==
  LET ps == { p \in DOMAIN b : m \in Chain(b, b[p].parts) }
  IN IF ps = {} THEN 0 ELSE CHOOSE p \in ps : TRUE

(* ---------------------- external predicates --------------------------- *)

\* mutt_is_multipart_encrypted: multipart/encrypted with the PGP protocol
\* parameter, recognised only when PGP is compiled in.
mutt_is_multipart_encrypted(b) ==
  /\ "APPLICATION_PGP" \in WithCrypto
  /\ b.type = TYPEMULTIPART
  /\ StrCaseEq(b.subtype, Str.encrypted)

mutt_is_message_type(type, subtype) ==
  IF type # TYPEMESSAGE THEN FALSE
  ELSE StrCaseEq(subtype, Str.rfc822) \/ StrCaseEq(subtype, Str.news)

(* -------------------------- mutt_update_tree -------------------------- *)

EmptySlot ==
  [ alloc |-> FALSE, content |-> 0, parent_type |-> TYPEOTHER, level |-> 0,
    num |-> 0, tree |-> <<>> ]

\* safe_calloc(1, sizeof(struct AttachPtr))
NewAttachPtr == [EmptySlot EXCEPT !.alloc = TRUE]

(* char buf[STRING] is never initialised: when mutt_update_tree is entered it
   holds what the stack held.  A byte of it is "NUL" or some other byte, "?".
   The code reads buf from its first byte to the first NUL only (mutt_strcmp,
   safe_strdup), and a NUL is overwritten only by an entry that writes every
   byte from that NUL up to a NUL of its own (line 82-89).  So of what the
   stack held the code sees the bytes up to the first NUL and no byte above
   it: a stack is the offset of its first NUL, SizeofBuf when it holds none. *)
Stacks == [nul : 0..SizeofBuf]

\* buf[i-1]: the byte written there, or the one the stack held.
ByteAt(buf, i) ==
  IF i <= Len(buf.bytes) THEN buf.bytes[i]
  ELSE IF i = buf.rest.nul + 1 THEN "NUL"
  ELSE "?"

\* buf[pos] = ch
PutAt(buf, pos, ch) ==
  [buf EXCEPT !.bytes =
     [ i \in 1..(IF pos + 1 > Len(buf.bytes) THEN pos + 1 ELSE Len(buf.bytes)) |->
         IF i = pos + 1 THEN ch ELSE ByteAt(buf, i) ]]

\* The C string that starts at buf[i-1]: the bytes up to the first NUL, one
\* that was written or the first one of the stack.  Without a NUL in buf the
\* read goes on into what lies beyond it: "BEYOND" stands for those bytes.
CStr(buf, i) ==
  LET Bytes(a, b) == [k \in 1..(b - a + 1) |-> ByteAt(buf, a + k - 1)]
      nuls == { k \in i..Len(buf.bytes) : buf.bytes[k] = "NUL" }
  IN IF nuls # {} THEN Bytes(i, Min(nuls) - 1)
     ELSE IF Len(buf.bytes) <= buf.rest.nul /\ buf.rest.nul < SizeofBuf
     THEN Bytes(i, buf.rest.nul)
     ELSE Bytes(i, SizeofBuf) \o <<"BEYOND">>

(* The for loop of mutt_update_tree for x in lo..hi-1, entered with the entries
   xs and the buffer buf of s; it returns the two as the loop leaves them.  For
   one entry: the columns of the entry are written if they fit (line 78-90),
   the string in buf is stored (line 92-98), and the first two columns are
   written over for the entries below it (line 100-105).  A longer run is the
   run of the entries below mid followed by the run of the others; the CHOOSE
   from a set of one element is that element, taken once the first run has
   been made. *)
RECURSIVE UpdateTreeFrom(_, _, _, _)
UpdateTreeFrom(lo, hi, s, b) ==
  IF lo >= hi THEN s
  ELSE IF hi = lo + 1
  THEN
    LET e == s.xs[lo]
        fits == 2 * (e.level + 2) < SizeofBuf
        hasNext == b[e.content].next # 0
        p == 2 * (e.level - 1)
        buf1 ==
          IF ~fits THEN s.buf
          ELSE IF e.level # 0
            THEN PutAt(PutAt(PutAt(PutAt(s.buf,
                   p, IF hasNext THEN "LTEE" ELSE "LLCORNER"),
                   p + 1, "HLINE"), p + 2, "RARROW"), p + 3, "NUL")
            ELSE PutAt(s.buf, 0, "NUL")
        e1 == [e EXCEPT !.num = lo, !.tree = CStr(buf1, 1)]
    IN [xs |-> [s.xs EXCEPT ![lo] = e1],
        buf |-> IF fits /\ e.level # 0
                THEN PutAt(PutAt(buf1, p, IF hasNext THEN "005" ELSE "006"),
                           p + 1, "006")
                ELSE buf1]
  ELSE
    LET mid == (lo + hi) \div 2
    IN CHOOSE r \in { UpdateTreeFrom(mid, hi, s1, b) :
                        s1 \in {UpdateTreeFrom(lo, mid, s, b)} } : TRUE

\* mutt_update_tree(idx, idxlen), entered with buf holding stack: no byte
\* written (bytes), the stack showing through (rest).
mutt_update_tree(xs, len, b, stack) ==
  UpdateTreeFrom(0, len, [xs |-> xs, buf |-> [bytes |-> <<>>, rest |-> stack]], b).xs

(* ------------------------ mutt_gen_attach_list ------------------------ *)

\* Mutant: the subtype is compared with mutt_strcmp.
DescendThroughCaseSensitive(m, parent_type, comp) ==
  /\ m.type = TYPEMULTIPART
  /\ m.parts # 0
  /\ (comp \/ (parent_type = "top" /\ Str.alternative # m.subtype))
  /\ ("APPLICATION_PGP" \notin WithCrypto \/ ~mutt_is_multipart_encrypted(m))

\* Mutant: every top-level multipart is descended through.
DescendThroughAnyTop(m, parent_type, comp) ==
  /\ m.type = TYPEMULTIPART
  /\ m.parts # 0
  /\ (comp \/ parent_type = "top")
  /\ ("APPLICATION_PGP" \notin WithCrypto \/ ~mutt_is_multipart_encrypted(m))

\* Line 124-126: the multipart is not listed; its parts take its place.
DescendThrough(m, parent_type, comp) ==
  /\ m.type = TYPEMULTIPART
  /\ m.parts # 0
  /\ (comp \/ (parent_type = "top" /\ ~StrCaseEq(Str.alternative, m.subtype)))
  /\ ("APPLICATION_PGP" \notin WithCrypto \/ ~mutt_is_multipart_encrypted(m))

\* Mutant: only the parts of a message are listed.
ListPartsMessageOnly(m, comp) ==
  /\ ~comp
  /\ ~m.collapsed
  /\ mutt_is_message_type(m.type, m.subtype)

\* Mutant: the collapsed flag is not looked at.
ListPartsIgnoreCollapsed(m, comp) ==
  /\ ~comp
  /\ \/ /\ m.type = TYPEMULTIPART
        /\ ("APPLICATION_PGP" \notin WithCrypto \/ ~mutt_is_multipart_encrypted(m))
     \/ mutt_is_message_type(m.type, m.subtype)

\* Line 142-145: the parts of a listed body are listed under it.
ListParts(m, comp) ==
  /\ ~comp
  /\ ~m.collapsed
  /\ \/ /\ m.type = TYPEMULTIPART
        /\ ("APPLICATION_PGP" \notin WithCrypto \/ ~mutt_is_multipart_encrypted(m))
     \/ mutt_is_message_type(m.type, m.subtype)

\* Line 117-122: grow idx when it is full.
GrowIdx(st) ==
  IF st.idxlen = st.idxmax
  THEN [st EXCEPT !.idxmax = st.idxmax + IdxGrow,
                  !.idx = [i \in 0..(st.idxmax + IdxGrow - 1) |->
                             IF i < st.idxmax THEN st.idx[i] ELSE EmptySlot]]
  ELSE st

\* Mutant: the back-reference is set only when the slot is allocated.
AddEntryAptrOnAlloc(st, m, parent_type, level) ==
  LET k == st.idxlen
      slot == IF st.idx[k].alloc THEN st.idx[k] ELSE NewAttachPtr
  IN [st EXCEPT !.idx[k] = [slot EXCEPT !.content = m,
                                        !.parent_type = parent_type,
                                        !.level = level],
                !.idxlen = k + 1,
                !.body[m].aptr = IF st.idx[k].alloc THEN @ ELSE k]

\* Mutant: the level stored counts the enclosing bodies, descended through or
\* not.
AddEntryNestingDepth(st, m, parent_type, level) ==
  LET k == st.idxlen
      slot == IF st.idx[k].alloc THEN st.idx[k] ELSE NewAttachPtr
  IN [st EXCEPT !.idx[k] = [slot EXCEPT !.content = m,
                                        !.parent_type = parent_type,
                                        !.level = IF parent_type = "top" THEN level
                                                  ELSE IF level = 0 THEN 1 ELSE level],
                !.idxlen = k + 1,
                !.body[m].aptr = k]

\* Mutant: an entry at level 0 gets the top-level sentinel as parent_type.
AddEntryTopAtLevel0(st, m, parent_type, level) ==
  LET k == st.idxlen
      slot == IF st.idx[k].alloc THEN st.idx[k] ELSE NewAttachPtr
  IN [st EXCEPT !.idx[k] = [slot EXCEPT !.content = m,
                                        !.parent_type = IF level = 0 THEN "top"
                                                        ELSE parent_type,
                                        !.level = level],
                !.idxlen = k + 1,
                !.body[m].aptr = k]

\* Line 132-139: the next slot becomes the entry of body m.
AddEntry(st, m, parent_type, level) ==
  LET k == st.idxlen
      slot == IF st.idx[k].alloc THEN st.idx[k] ELSE NewAttachPtr
  IN [st EXCEPT !.idx[k] = [slot EXCEPT !.content = m,
                                        !.parent_type = parent_type,
                                        !.level = level],
                !.idxlen = k + 1,
                !.body[m].aptr = k]

RECURSIVE GenLoop(_, _, _, _, _, _)
RECURSIVE mutt_gen_attach_list(_, _, _, _, _, _)

\* The for loop of mutt_gen_attach_list, from body m on.
GenLoop(m, parent_type, st, level, comp, stack) ==
  IF m = 0 THEN st
  ELSE
    LET st1 == GrowIdx(st)
        bm == st1.body[m]
        st2 ==
          IF DescendThrough(bm, parent_type, comp)
          THEN mutt_gen_attach_list(bm.parts, bm.type, st1, level, comp, stack)
          ELSE
            LET st3 == AddEntry(st1, m, parent_type, level)
            IN IF ListParts(bm, comp)
               THEN mutt_gen_attach_list(bm.parts, bm.type, st3, level + 1, comp,
                                         stack)
               ELSE st3
    IN GenLoop(bm.next, parent_type, st2, level, comp, stack)

\* mutt_gen_attach_list(m, parent_type, idx, &idxlen, &idxmax, level, compose);
\* stack is what the stack holds when it calls mutt_update_tree.
mutt_gen_attach_list(m, parent_type, st, level, comp, stack) ==
  LET st1 == GenLoop(m, parent_type, st, level, comp, stack)
  IN IF level = 0
     THEN [st1 EXCEPT !.idx = mutt_update_tree(st1.idx, st1.idxlen, st1.body, stack)]
     ELSE st1

(* --------------------------- attach_collapse -------------------------- *)

\* attach_collapse(b, collapse, init, just_one) on the bodies bs; dc is
\* option(OPT_DIGEST_COLLAPSE).  Returns the bodies.
RECURSIVE attach_collapse(_, _, _, _, _, _)
attach_collapse(bs, b, collapse, init, just_one, dc) ==
  IF b = 0 THEN bs
  ELSE
    LET i == init \/ bs[b].collapsed
        bs1 ==
          IF i /\ dc /\ bs[b].type = TYPEMULTIPART /\ StrCaseEq(bs[b].subtype, Str.digest)
          THEN attach_collapse(bs, bs[b].parts, TRUE, TRUE, FALSE, dc)
          ELSE IF bs[b].type = TYPEMULTIPART
                  \/ mutt_is_message_type(bs[b].type, bs[b].subtype)
          THEN attach_collapse(bs, bs[b].parts, collapse, i, FALSE, dc)
          ELSE bs
        bs2 == [bs1 EXCEPT ![b].collapsed = collapse]
    IN IF just_one THEN bs2
       ELSE attach_collapse(bs2, bs[b].next, collapse, init, just_one, dc)

(* --------------------------- mutt_attach_init ------------------------- *)

RECURSIVE mutt_attach_init(_, _)
mutt_attach_init(bs, b) ==
  IF b = 0 THEN bs
  ELSE
    LET bs1 == [bs EXCEPT ![b].tagged = FALSE, ![b].collapsed = FALSE]
        bs2 == IF bs[b].parts # 0 THEN mutt_attach_init(bs1, bs[b].parts) ELSE bs1
    IN mutt_attach_init(bs2, bs[b].next)

(* -------------------------- update_attach_index ----------------------- *)

\* Line 833-834: the cursor stays inside the list.
ClampCurrent(current, max) == IF current >= max THEN max - 1 ELSE current

\* update_attach_index(cur, &idx, &idxlen, &idxmax, menu): the index state
\* [idx, idxlen, idxmax, body] after the rebuild.  The entries in use forget
\* their bodies first (line 823-826).
RebuildIndex(c, xs, len, max, bs, stack) ==
  mutt_gen_attach_list(c, "top",
    [idx |-> [i \in DOMAIN xs |->
                IF i < len THEN [xs[i] EXCEPT !.content = 0] ELSE xs[i]],
     idxlen |-> 0, idxmax |-> max, body |-> bs],
    0, FALSE, stack)

\* The stacks mutt_update_tree tells apart on the list of st.  A first entry
\* of level 0 puts a NUL in buf[0] before any byte is read (line 87-89), and
\* from then on every byte read was written: the stack does not show.
StacksSeen(st) ==
  IF st.idxlen = 0 \/ st.idx[0].level = 0 THEN {[nul |-> 0]} ELSE Stacks

\* update_attach_index entered on any stack: the index states it can leave.
\* The entries and their levels do not depend on the stack.
Rebuilds(c, xs, len, max, bs) ==
  LET st0 == RebuildIndex(c, xs, len, max, bs, [nul |-> 0])
  IN { RebuildIndex(c, xs, len, max, bs, stack) : stack \in StacksSeen(st0) }

(* ------------------------------ the session --------------------------- *)

NoMenu == [exists |-> FALSE, current |-> 0, max |-> 0]

NoContext == [null |-> TRUE, readonly |-> FALSE, magic |-> "none"]

Hist0 ==
  [ failed |-> {},        \* decryption calls that failed
    raw_frees |-> 0,      \* mutt_free_body calls on a body no decryption produced
    msg_closes |-> 0,     \* fclose calls on msg->fp by the session itself
    menus |-> 0,          \* mutt_new_menu calls
    edits |-> 0,          \* mutt_edit_content_type calls
    root |-> 0,           \* the root of the tree the menu shows
    message |-> "",       \* the message line (mutt_error, mutt_message)
    call |-> <<>>,        \* options and answers a save or print runs with
    log |-> <<>>,         \* what a save or print asked, wrote and spawned
    body0 |-> <<>> ]      \* the bodies as they were when the session started

\* mutt_error(m) or mutt_message(m); "" when mutt_menu_loop has cleared the
\* message line and the operation says nothing.
Say(m) == hist' = [hist EXCEPT !.message = m]

\* The bodies the first len entries list.
Listed(xs, len) == { xs[i].content : i \in 0..(len - 1) }

(* Decryption.  A call either fails and leaves its outputs alone, or produces a
   new file and a new body tree.  The tree is an S/MIME-opaque body (a nested
   message) or a text body. *)

DecryptOutcomes == {"fail", "opaque", "text"}

DecFile(k) == <<"f1", "f2", "f3">>[k]

DecryptedTree(out) ==
  IF out = "opaque"
  THEN TreeOf(<<0>>, <<Kind(TYPEAPPLICATION, Str.pkcs7_mime)>>)
  ELSE TreeOf(<<0>>, <<Kind(TYPETEXT, Str.plain)>>)

\* mutt_is_application_smime(b) (and its SMIMEOPAQUE bit): 0 for NULL.
mutt_is_application_smime(bs, b) ==
  /\ b # 0
  /\ bs[b].type = TYPEAPPLICATION
  /\ StrCaseEq(bs[b].subtype, Str.pkcs7_mime)

mutt_is_malformed_multipart_pgp_encrypted(bs, b) ==
  /\ bs[b].type = TYPEMULTIPART
  /\ StrCaseEq(bs[b].subtype, Str.mixed)
  /\ bs[b].parts # 0
  /\ bs[bs[b].parts].type = TYPEAPPLICATION
  /\ StrCaseEq(bs[bs[b].parts].subtype, Str.pgp_encrypted)
  /\ bs[bs[b].parts].next # 0
  /\ StrCaseEq(bs[bs[bs[b].parts].next].subtype, Str.octet_stream)

\* The bodies with the tree t added after them, and the id of its root.
AddTree(bs, t) ==
  LET base == Cardinality(DOMAIN bs)
      shift(p) == IF p = 0 THEN 0 ELSE p + base
  IN [ i \in 1..(base + Cardinality(DOMAIN t)) |->
         IF i <= base THEN bs[i]
         ELSE [t[i - base] EXCEPT !.parts = shift(t[i - base].parts),
                                  !.next = shift(t[i - base].next)] ]

\* The state [body, decs, fp, cur, secured, failed] after a decryption call
\* `by` with outcome `out`.
DecryptCall(d, by, out) ==
  IF out = "fail"
  THEN [d EXCEPT !.secured = FALSE, !.failed = d.failed \cup {by}]
  ELSE [d EXCEPT !.secured = TRUE,
                 !.body = AddTree(d.body, DecryptedTree(out)),
                 !.decs = Append(d.decs,
                            [ by |-> by, file |-> DecFile(Len(d.decs) + 1),
                              root |-> Cardinality(DOMAIN d.body) + 1,
                              closes |-> 0, frees |-> 0 ]),
                 !.fp = DecFile(Len(d.decs) + 1),
                 !.cur = Cardinality(DOMAIN d.body) + 1]

\* safe_fclose(&f) and mutt_free_body(&b) on the pairs of decs.
CloseFile(ds, f) ==
  [k \in DOMAIN ds |-> IF ds[k].file = f THEN [ds[k] EXCEPT !.closes = @ + 1] ELSE ds[k]]

FreeBody(ds, b) ==
  [k \in DOMAIN ds |-> IF ds[k].root = b THEN [ds[k] EXCEPT !.frees = @ + 1] ELSE ds[k]]

IsDecRoot(ds, b) == \E k \in DOMAIN ds : ds[k].root = b

\* Line 1001-1002: the intermediate pair of a nested S/MIME message is released.
ReleaseIntermediate(d, c, f) ==
  [d EXCEPT !.decs = CloseFile(FreeBody(d.decs, c), f)]

\* Line 987-1006: the S/MIME branch, on d = [body, decs, fp, cur, secured,
\* failed, need_secured]; out1 and out2 are the outcomes of the two calls.
SmimeBranch(d, content, out1, out2) ==
  IF mutt_is_application_smime(d.body, content)
  THEN
    LET d1 == DecryptCall(d, "smime", out1)
    IN IF mutt_is_application_smime(d1.body, d1.cur)
       THEN ReleaseIntermediate(
              DecryptCall([d1 EXCEPT !.fp = "NULL", !.cur = 0], "nested", out2),
              d1.cur, d1.fp)
       ELSE d1
  ELSE [d EXCEPT !.need_secured = FALSE]

\* Line 1010-1014: the PGP branch.
PgpBranch(d, content, out) ==
  IF mutt_is_multipart_encrypted(d.body[content])
     \/ mutt_is_malformed_multipart_pgp_encrypted(d.body, content)
  THEN DecryptCall(d, "pgp", out)
  ELSE [d EXCEPT !.need_secured = FALSE]

CryptState ==
  [ body |-> body, decs |-> decs, fp |-> fp, cur |-> cur, secured |-> secured,
    failed |-> hist.failed, need_secured |-> need_secured ]

SetCryptState(d) ==
  /\ body' = d.body
  /\ decs' = d.decs
  /\ fp' = d.fp
  /\ cur' = d.cur
  /\ secured' = d.secured
  /\ need_secured' = d.need_secured
  /\ hist' = [hist EXCEPT !.failed = d.failed]

(* ------------------------- mutt_view_attachments ---------------------- *)

\* Line 964-981: parse, open the message, decide whether to decrypt, check the
\* passphrase.
ViewStart ==
  /\ pc = "start"
  /\ \E opened \in BOOLEAN :
       IF ~opened
       THEN /\ pc' = "done"
            /\ ret' = "no_message"
            /\ UNCHANGED <<msg, need_secured>>
       ELSE IF WithCrypto # {}
               /\ ("ENCRYPT" \in hdr.security
                   \/ mutt_is_application_smime(body, hdr.content))
       THEN /\ need_secured' = TRUE
            /\ IF "ENCRYPT" \in hdr.security /\ ~passphrase
               THEN msg' = "closed" /\ pc' = "done" /\ ret' = "no_passphrase"
               ELSE msg' = "open" /\ pc' = "smime" /\ ret' = ret
       ELSE /\ msg' = "open"
            /\ pc' = "install"
            /\ UNCHANGED <<need_secured, ret>>
  /\ hist' = [hist EXCEPT !.body0 = body]
  /\ UNCHANGED <<body, hdr, Context, passphrase, secured, fp, cur, decs, idx,
                 idxlen, idxmax, menu, op, compose>>

\* Line 982-1007
SmimeStep ==
  /\ pc = "smime"
  /\ pc' = "pgp"
  /\ IF "APPLICATION_SMIME" \in WithCrypto /\ "APPLICATION_SMIME" \in hdr.security
     THEN \E out1, out2 \in DecryptOutcomes :
            \E d \in {SmimeBranch(CryptState, hdr.content, out1, out2)} :
              SetCryptState(d)
     ELSE UNCHANGED <<body, decs, fp, cur, secured, need_secured, hist>>
  /\ UNCHANGED <<hdr, Context, passphrase, ret, msg, idx, idxlen, idxmax, menu,
                 op, compose>>

\* Line 1008-1015
PgpStep ==
  /\ pc = "pgp"
  /\ pc' = "check"
  /\ IF "APPLICATION_PGP" \in WithCrypto /\ "APPLICATION_PGP" \in hdr.security
     THEN \E out \in DecryptOutcomes \ {"opaque"} :
            \E d \in {PgpBranch(CryptState, hdr.content, out)} : SetCryptState(d)
     ELSE UNCHANGED <<body, decs, fp, cur, secured, need_secured, hist>>
  /\ UNCHANGED <<hdr, Context, passphrase, ret, msg, idx, idxlen, idxmax, menu,
                 op, compose>>

\* Line 1017-1022
CheckSecured ==
  /\ pc = "check"
  /\ IF need_secured /\ ~secured
     THEN /\ msg' = "closed" /\ pc' = "done" /\ ret' = "cant_decrypt"
          /\ Say("Can't decrypt encrypted message!")
     ELSE pc' = "install" /\ UNCHANGED <<msg, ret, hist>>
  /\ UNCHANGED <<body, hdr, Context, passphrase, need_secured, secured, fp, cur,
                 decs, idx, idxlen, idxmax, menu, op, compose>>

\* Line 1025-1029: without a decryption the raw message is shown.
ShowRaw == WithCrypto = {} \/ ~need_secured

\* The new index state st becomes the session's, with the cursor clamped.
SetIndex(st, current) ==
  /\ body' = st.body
  /\ idx' = st.idx
  /\ idxlen' = st.idxlen
  /\ idxmax' = st.idxmax
  /\ menu' = [exists |-> TRUE, max |-> st.idxlen,
              current |-> ClampCurrent(current, st.idxlen)]

\* Line 1025-1040: the tree shown, the menu, the first index.
Install ==
  /\ pc = "install"
  /\ \E dc \in BOOLEAN :
       LET f == IF ShowRaw THEN "msg" ELSE fp
           c == IF ShowRaw THEN hdr.content ELSE cur
       IN \E bs0 \in {mutt_attach_init(body, c)} :
          \E bs \in {attach_collapse(bs0, c, FALSE, TRUE, FALSE, dc)} :
          \E st \in Rebuilds(c, idx, idxlen, idxmax, bs) :
          /\ fp' = f
          /\ cur' = c
          /\ SetIndex(st, 0)
          /\ hist' = [hist EXCEPT !.menus = @ + 1, !.root = c]
  /\ pc' = "menu"
  /\ UNCHANGED <<hdr, Context, passphrase, ret, msg, need_secured, secured, decs,
                 op, compose>>

(* The main loop.  pc = "menu": at line 1044.  With op = OP_NULL the menu is
   asked for the next operation; otherwise the operation the view loop
   returned is dispatched.  The switch is reached only with a mailbox
   (line 1046). *)

Fetch(o) == pc = "menu" /\ ~Context.null /\ op \in {"OP_NULL", o}

\* The body of the entry under the cursor.
CurrentBody == idx[menu.current].content

\* update_attach_index as called by an operation handler.
Rebuild(bs) ==
  \E st \in Rebuilds(cur, idx, idxlen, idxmax, bs) :
     /\ SetIndex(st, menu.current)
     /\ Say("")

\* mutt_menu_loop moves the cursor.
MenuMove ==
  /\ pc = "menu" /\ op = "OP_NULL"
  /\ \E n \in 0..(menu.max - 1) :
       /\ n # menu.current
       /\ menu' = [menu EXCEPT !.current = n]
  /\ Say("")
  /\ UNCHANGED <<body, hdr, Context, passphrase, pc, ret, msg, need_secured,
                 secured, fp, cur, decs, idx, idxlen, idxmax, op, compose>>

\* mutt_tag_attach(menu, n, m): m >= 0 sets the flag, m < 0 toggles it.
TagAttach(bs, b, m) ==
  [bs EXCEPT ![b].tagged = IF m >= 0 THEN m # 0 ELSE ~bs[b].tagged]

\* mutt_menu_loop tags the entry under the cursor (menu->tag).
MenuTag ==
  /\ pc = "menu" /\ op = "OP_NULL"
  /\ body' = TagAttach(body, CurrentBody, -1)
  /\ Say("")
  /\ UNCHANGED <<hdr, Context, passphrase, pc, ret, msg, need_secured, secured,
                 fp, cur, decs, idx, idxlen, idxmax, menu, op, compose>>

\* Line 1044-1047: the mailbox went away while the menu waited (op is
\* OP_NULL and mutt_menu_loop was called), or it had gone away before: then
\* the function returns whatever op holds.
ContextLost ==
  /\ pc = "menu"
  /\ op = "OP_NULL" \/ Context.null
  /\ Context' = NoContext
  /\ pc' = "done"
  /\ ret' = "no_context"
  /\ UNCHANGED <<body, hdr, passphrase, msg, need_secured, secured, fp, cur, decs,
                 idx, idxlen, idxmax, menu, op, compose, hist>>

\* Mutant: the body is opened whatever its collapsed flag says.
ToggleCollapseAlwaysOpen(bs, b, dc) ==
  attach_collapse(bs, b, FALSE, TRUE, TRUE, dc)

\* Mutant: just_one is passed as 0, so the walk goes on to the bodies after
\* the one under the cursor.
ToggleCollapseNotJustOne(bs, b, dc) ==
  IF ~bs[b].collapsed
  THEN attach_collapse(bs, b, TRUE, FALSE, FALSE, dc)
  ELSE attach_collapse(bs, b, FALSE, TRUE, FALSE, dc)

\* Line 1072-1075: collapse an open body, open a collapsed one.
ToggleCollapse(bs, b, dc) ==
  IF ~bs[b].collapsed
  THEN attach_collapse(bs, b, TRUE, FALSE, TRUE, dc)
  ELSE attach_collapse(bs, b, FALSE, TRUE, TRUE, dc)

\* Line 1066-1077
OpAttachCollapse ==
  /\ Fetch("OP_ATTACH_COLLAPSE")
  /\ op' = "OP_NULL"
  /\ IF body[CurrentBody].parts = 0
     THEN /\ Say("There are no subparts to show!")
          /\ UNCHANGED <<body, idx, idxlen, idxmax, menu>>
     ELSE \E dc \in BOOLEAN : Rebuild(ToggleCollapse(body, CurrentBody, dc))
  /\ UNCHANGED <<hdr, Context, passphrase, pc, ret, msg, need_secured, secured,
                 fp, cur, decs, compose>>

\* Line 1117, 1160, 1198: the cursor moves on after the operation.
Resolve(m, resolve) ==
  IF resolve /\ m.current < m.max - 1 THEN [m EXCEPT !.current = @ + 1] ELSE m

\* Line 58-64: CHECK_READONLY
Mailbox_is_read_only == "Mailbox is read-only."

\* Line 1124-1147: the message of the check that keeps OP_DELETE from
\* deleting anything; "" when no check does.
DeleteRefusal ==
  IF Context.readonly THEN Mailbox_is_read_only
  ELSE IF Context.magic = "MUTT_POP" THEN "Can't delete attachment from POP server."
  ELSE IF Context.magic = "MUTT_NNTP" THEN "Can't delete attachment from news server."
  ELSE IF WithCrypto # {} /\ "ENCRYPT" \in hdr.security
  THEN "Deletion of attachments from encrypted messages is unsupported."
  ELSE ""

\* Mutant: OP_DELETE without CHECK_READONLY.
DeleteRefusedWritable ==
  \/ Context.magic = "MUTT_POP"
  \/ Context.magic = "MUTT_NNTP"
  \/ (WithCrypto # {} /\ "ENCRYPT" \in hdr.security)

\* Line 1124-1154: what keeps OP_DELETE from deleting anything.
DeleteRefused ==
  \/ Context.readonly
  \/ Context.magic = "MUTT_POP"
  \/ Context.magic = "MUTT_NNTP"
  \/ (WithCrypto # {} /\ "ENCRYPT" \in hdr.security)

\* Line 1148-1152: the warning on a signed message; the deletion goes on.
SignedWarning ==
  IF WithCrypto # {} /\ hdr.security \cap {"SIGN", "PARTSIGN"} # {}
  THEN "Deletion of attachments from signed messages may invalidate the signature."
  ELSE ""

Only_multipart == "Only deletion of multipart attachments is supported."

\* Mutant: the tagged entries are deleted whatever their parent is.
DeleteTaggedAnyParent(bs, xs, max) ==
  [b \in DOMAIN bs |->
     IF \E x \in 0..(max - 1) : xs[x].content = b /\ bs[b].tagged
     THEN [bs[b] EXCEPT !.deleted = TRUE] ELSE bs[b]]

\* Line 1176-1189: the tagged entries with a multipart parent are deleted.
DeleteTagged(bs, xs, max) ==
  [b \in DOMAIN bs |->
     IF \E x \in 0..(max - 1) :
          xs[x].content = b /\ bs[b].tagged /\ xs[x].parent_type = TYPEMULTIPART
     THEN [bs[b] EXCEPT !.deleted = TRUE] ELSE bs[b]]

\* Line 1182-1184: a tagged entry whose parent is not a multipart is refused.
TaggedRefused(bs, xs, max) ==
  \E x \in 0..(max - 1) :
    bs[xs[x].content].tagged /\ xs[x].parent_type # TYPEMULTIPART

\* Line 1123-1191, with menu->tagprefix and option(OPT_RESOLVE) as given.
OpDeleteWith(tagprefix, resolve) ==
  /\ Fetch("OP_DELETE")
  /\ op' = "OP_NULL"
  /\ IF DeleteRefused
     THEN Say(DeleteRefusal) /\ UNCHANGED <<body, menu>>
     ELSE IF ~tagprefix
     THEN IF idx[menu.current].parent_type = TYPEMULTIPART
          THEN /\ body' = [body EXCEPT ![CurrentBody].deleted = TRUE]
               /\ menu' = Resolve(menu, resolve)
               /\ Say(SignedWarning)
          ELSE Say(Only_multipart) /\ UNCHANGED <<body, menu>>
     ELSE /\ body' = DeleteTagged(body, idx, menu.max)
          /\ Say(IF TaggedRefused(body, idx, menu.max)
                 THEN Only_multipart ELSE SignedWarning)
          /\ UNCHANGED menu
  /\ UNCHANGED <<hdr, Context, passphrase, pc, ret, msg, need_secured, secured,
                 fp, cur, decs, idx, idxlen, idxmax, compose>>

\* Line 1123-1191
OpDelete == \E tagprefix, resolve \in BOOLEAN : OpDeleteWith(tagprefix, resolve)

\* Line 1210-1217
UndeleteTagged(bs, xs, max) ==
  [b \in DOMAIN bs |->
     IF \E x \in 0..(max - 1) : xs[x].content = b /\ bs[b].tagged
     THEN [bs[b] EXCEPT !.deleted = FALSE] ELSE bs[b]]

\* Line 1193-1219, with menu->tagprefix and option(OPT_RESOLVE) as given.
OpUndeleteWith(tagprefix, resolve) ==
  /\ Fetch("OP_UNDELETE")
  /\ op' = "OP_NULL"
  /\ IF Context.readonly
     THEN Say(Mailbox_is_read_only) /\ UNCHANGED <<body, menu>>
     ELSE IF ~tagprefix
     THEN /\ body' = [body EXCEPT ![CurrentBody].deleted = FALSE]
          /\ menu' = Resolve(menu, resolve)
          /\ Say("")
     ELSE /\ body' = UndeleteTagged(body, idx, menu.max)
          /\ Say("")
          /\ UNCHANGED menu
  /\ UNCHANGED <<hdr, Context, passphrase, pc, ret, msg, need_secured, secured,
                 fp, cur, decs, idx, idxlen, idxmax, compose>>

\* Line 1193-1219
OpUndelete == \E tagprefix, resolve \in BOOLEAN : OpUndeleteWith(tagprefix, resolve)

\* The content types the user may type into mutt_edit_content_type.
EditKinds == { Kind(TYPEMULTIPART, Str.mixed) }

\* mutt_edit_content_type(hdr, b, fp): the body gets the content type typed.
mutt_edit_content_type(bs, b, kind) ==
  [bs EXCEPT ![b].type = kind.type, ![b].subtype = kind.subtype]

\* Line 1279-1282
OpEditType ==
  /\ Fetch("OP_EDIT_TYPE")
  /\ hist.edits < MaxEdits
  /\ op' = "OP_NULL"
  /\ \E kind \in EditKinds :
       \E st \in Rebuilds(cur, idx, idxlen, idxmax,
                            mutt_edit_content_type(body, CurrentBody, kind)) :
          /\ SetIndex(st, menu.current)
          /\ hist' = [hist EXCEPT !.edits = @ + 1, !.message = ""]
  /\ UNCHANGED <<hdr, Context, passphrase, pc, ret, msg, need_secured, secured,
                 fp, cur, decs, compose>>

\* What crypt_query(cur) may report after crypt_pgp_check_traditional found
\* inline PGP.
CryptQueryResults == { {"APPLICATION_PGP", "SIGN"} }

\* Line 1092-1100
OpCheckTraditional ==
  /\ Fetch("OP_CHECK_TRADITIONAL")
  /\ op' = "OP_NULL"
  /\ \E found \in BOOLEAN :
       IF "APPLICATION_PGP" \in WithCrypto /\ found
       THEN \E q \in CryptQueryResults : hdr' = [hdr EXCEPT !.security = q]
       ELSE UNCHANGED hdr
  /\ Say("")
  /\ UNCHANGED <<body, Context, passphrase, pc, ret, msg, need_secured, secured,
                 fp, cur, decs, idx, idxlen, idxmax, menu, compose>>

\* Operations of the main loop that change nothing the model holds: viewing
\* with mailcap or as text, forgetting the passphrase, extracting keys, and the
\* operations the switch does not know.
QuietOps ==
  { "OP_ATTACH_VIEW_MAILCAP", "OP_ATTACH_VIEW_TEXT", "OP_FORGET_PASSPHRASE",
    "OP_EXTRACT_KEYS", "OP_HELP" }

OpQuiet ==
  /\ { o \in QuietOps : Fetch(o) } # {}
  /\ op' = "OP_NULL"
  /\ Say("")
  /\ UNCHANGED <<body, hdr, Context, passphrase, pc, ret, msg, need_secured,
                 secured, fp, cur, decs, idx, idxlen, idxmax, menu, compose>>

\* b->hdr: the parser sets it on a message body whose parts it parsed.
HasHdr(b) ==
  mutt_is_message_type(body[b].type, body[b].subtype) /\ body[b].parts # 0

\* The operations that start with CHECK_ATTACH.
SendOps ==
  { "OP_RESEND", "OP_BOUNCE_MESSAGE", "OP_FORWARD_MESSAGE", "OP_FORWARD_TO_GROUP",
    "OP_FOLLOWUP", "OP_REPLY", "OP_GROUP_REPLY", "OP_LIST_REPLY" }

\* Line 1221-1277.  With attach_msg set the operation is refused.  OP_FOLLOWUP
\* reads content->hdr->env of the part under the cursor (line 1253): on a
\* part without a hdr that is a read through a NULL pointer, which faults or
\* yields some value.  The senders change nothing of the state held here.
OpSend ==
  /\ { o \in SendOps : Fetch(o) } # {}
  /\ \E attach_msg \in BOOLEAN :
       IF attach_msg
       THEN /\ Say("Function not permitted in attach-message mode.")
            /\ UNCHANGED <<pc, ret>>
       ELSE \/ /\ Say("")
               /\ UNCHANGED <<pc, ret>>
            \/ /\ Fetch("OP_FOLLOWUP") /\ ~HasHdr(CurrentBody)
               /\ pc' = "crashed"
               /\ ret' = "crash"
               /\ UNCHANGED hist
  /\ op' = "OP_NULL"
  /\ UNCHANGED <<body, hdr, Context, passphrase, msg, need_secured, secured,
                 fp, cur, decs, idx, idxlen, idxmax, menu, compose>>

\* Line 1287-1297: the slots are freed; a listed body loses its aptr.
ExitClearAptr(bs, xs) ==
  [b \in DOMAIN bs |->
     IF \E k \in DOMAIN xs : xs[k].alloc /\ xs[k].content = b
     THEN [bs[b] EXCEPT !.aptr = -1] ELSE bs[b]]

\* Line 1291-1292
ExitAttachDel(bs, xs) ==
  \E k \in DOMAIN xs : xs[k].alloc /\ xs[k].content # 0 /\ bs[xs[k].content].deleted

\* Line 1303: the decrypted file and body are released.
ExitReleases == WithCrypto # {} /\ need_secured /\ secured

\* Line 1284-1311
OpExit ==
  /\ Fetch("OP_EXIT")
  /\ msg' = "closed"
  /\ hdr' = [hdr EXCEPT !.attach_del = ExitAttachDel(body, idx),
                        !.changed = hdr.changed \/ ExitAttachDel(body, idx)]
  /\ body' = ExitClearAptr(body, idx)
  /\ idx' = <<>>
  /\ idxmax' = 0
  /\ IF ExitReleases
     THEN /\ decs' = FreeBody(CloseFile(decs, fp), cur)
          /\ hist' = [hist EXCEPT
                        !.raw_frees = IF IsDecRoot(decs, cur) THEN @ ELSE @ + 1,
                        !.msg_closes = IF fp = "msg" THEN @ + 1 ELSE @,
                        !.message = ""]
          /\ fp' = "NULL"
          /\ cur' = 0
     ELSE Say("") /\ UNCHANGED <<decs, fp, cur>>
  /\ menu' = NoMenu
  /\ pc' = "done"
  /\ ret' = "exit"
  /\ UNCHANGED <<Context, passphrase, need_secured, secured, idxlen, op, compose>>

(* ------------------------ mutt_attach_display_loop -------------------- *)

(* pc = "view": at mutt_view_attachment (line 854).  With op = OP_VIEW_ATTACH
   the viewer is running; the actions below take the operation it returns
   through the switch, until the loop calls the viewer again or returns to the
   main loop.  For an operation the switch has no case for, the assignment of
   line 854 is a step of its own: op holds what the viewer returned. *)

InViewer == pc = "view" /\ op = "OP_VIEW_ATTACH"

\* Operations of the pager that the switch of the loop has no case for.
OtherOps == {"OP_SAVE", "OP_EXIT"}

\* Line 1060-1064
OpViewAttach ==
  /\ \E o \in {"OP_VIEW_ATTACH", "OP_DISPLAY_HEADERS"} : Fetch(o)
  /\ op' = "OP_VIEW_ATTACH"
  /\ pc' = "view"
  /\ Say("")
  /\ UNCHANGED <<body, hdr, Context, passphrase, ret, msg, need_secured, secured,
                 fp, cur, decs, idx, idxlen, idxmax, menu, compose>>

\* Line 906 and 1062-1064: the loop returns o to the main loop.
LeaveView(o) == pc' = "menu" /\ op' = o

\* Line 854: the mailbox goes away while the viewer runs.
ViewerLosesContext ==
  /\ InViewer
  /\ ~Context.null
  /\ Context' = NoContext
  /\ UNCHANGED <<body, hdr, passphrase, pc, ret, msg, need_secured, secured, fp,
                 cur, decs, idx, idxlen, idxmax, menu, op, compose, hist>>

\* Line 849-856: OP_VIEW_ATTACH or OP_DISPLAY_HEADERS: the viewer is called again.
ViewAgain ==
  /\ InViewer
  /\ op' = "OP_VIEW_ATTACH"
  /\ UNCHANGED <<body, hdr, Context, passphrase, pc, ret, msg, need_secured,
                 secured, fp, cur, decs, idx, idxlen, idxmax, menu, compose, hist>>

\* Line 858-867
ViewNext ==
  /\ InViewer
  /\ IF menu.current < menu.max - 1
     THEN /\ menu' = [menu EXCEPT !.current = @ + 1]
          /\ op' = "OP_VIEW_ATTACH"
          /\ UNCHANGED pc
     ELSE LeaveView("OP_NULL") /\ UNCHANGED menu
  /\ UNCHANGED <<body, hdr, Context, passphrase, ret, msg, need_secured, secured,
                 fp, cur, decs, idx, idxlen, idxmax, compose, hist>>

\* Line 868-877
ViewPrev ==
  /\ InViewer
  /\ IF menu.current > 0
     THEN /\ menu' = [menu EXCEPT !.current = @ - 1]
          /\ op' = "OP_VIEW_ATTACH"
          /\ UNCHANGED pc
     ELSE LeaveView("OP_NULL") /\ UNCHANGED menu
  /\ UNCHANGED <<body, hdr, Context, passphrase, ret, msg, need_secured, secured,
                 fp, cur, decs, idx, idxlen, idxmax, compose, hist>>

\* Line 878-888
ViewEditType ==
  /\ InViewer
  /\ hist.edits < MaxEdits
  /\ op' = "OP_VIEW_ATTACH"
  /\ \E kind \in EditKinds :
       \E st \in Rebuilds(cur, idx, idxlen, idxmax,
                            mutt_edit_content_type(body, CurrentBody, kind)) :
          /\ SetIndex(st, menu.current)
          /\ hist' = [hist EXCEPT !.edits = @ + 1]
  /\ UNCHANGED <<hdr, Context, passphrase, pc, ret, msg, need_secured, secured,
                 fp, cur, decs, compose>>

\* Line 890-899, 902
ViewCheckTraditional ==
  /\ InViewer
  /\ IF "APPLICATION_PGP" \notin WithCrypto
        \/ "PGP_TRADITIONAL_CHECKED" \in hdr.security
     THEN LeaveView("OP_NULL")
     ELSE LeaveView("OP_CHECK_TRADITIONAL")
  /\ UNCHANGED <<body, hdr, Context, passphrase, ret, msg, need_secured, secured,
                 fp, cur, decs, idx, idxlen, idxmax, menu, compose, hist>>

\* Line 897-899: recv is 1 in mutt_view_attachments.
ViewCollapse ==
  /\ InViewer
  /\ LeaveView("OP_ATTACH_COLLAPSE")
  /\ UNCHANGED <<body, hdr, Context, passphrase, ret, msg, need_secured, secured,
                 fp, cur, decs, idx, idxlen, idxmax, menu, compose, hist>>

\* Line 854: the viewer returns an operation of OtherOps.
ViewerReturns ==
  /\ InViewer
  /\ op' \in OtherOps
  /\ UNCHANGED <<body, hdr, Context, passphrase, pc, ret, msg, need_secured,
                 secured, fp, cur, decs, idx, idxlen, idxmax, menu, compose, hist>>

\* Mutant: the default case leaves op alone.
ViewOtherPassThrough ==
  /\ pc = "view"
  /\ op \in OtherOps
  /\ LeaveView(op)
  /\ UNCHANGED <<body, hdr, Context, passphrase, ret, msg, need_secured, secured,
                 fp, cur, decs, idx, idxlen, idxmax, menu, compose, hist>>

\* Line 901-902: any other operation ends the loop with OP_NULL.
ViewOther ==
  /\ pc = "view"
  /\ op \in OtherOps
  /\ LeaveView("OP_NULL")
  /\ UNCHANGED <<body, hdr, Context, passphrase, ret, msg, need_secured, secured,
                 fp, cur, decs, idx, idxlen, idxmax, menu, compose, hist>>

(* ------------------------------ specification ------------------------- *)

\* multipart/encrypted as PGP/MIME sends it
PgpEncryptedTree ==
  TreeOf(<<0, 1, 1>>,
         <<Kind(TYPEMULTIPART, Str.encrypted), Kind(TYPEAPPLICATION, Str.pgp_encrypted),
           Kind(TYPEAPPLICATION, Str.octet_stream)>>)

\* the malformed variant some gateways produce
MalformedPgpTree ==
  TreeOf(<<0, 1, 1>>,
         <<Kind(TYPEMULTIPART, Str.mixed), Kind(TYPEAPPLICATION, Str.pgp_encrypted),
           Kind(TYPEAPPLICATION, Str.octet_stream)>>)

SmimeOpaqueTree == TreeOf(<<0>>, <<Kind(TYPEAPPLICATION, Str.pkcs7_mime)>>)

CryptoTrees == { SmimeOpaqueTree, PgpEncryptedTree, MalformedPgpTree }

\* hdr->security of the message viewed
Securities(t) ==
  IF t \in CryptoTrees
  THEN SUBSET {"ENCRYPT", "APPLICATION_PGP", "APPLICATION_SMIME"}
  ELSE { {}, {"ENCRYPT", "APPLICATION_PGP"},
         {"APPLICATION_PGP", "PGP_TRADITIONAL_CHECKED"} }

Contexts ==
  { [null |-> FALSE, readonly |-> FALSE, magic |-> "MUTT_MBOX"],
    [null |-> FALSE, readonly |-> TRUE, magic |-> "MUTT_MBOX"],
    [null |-> FALSE, readonly |-> FALSE, magic |-> "MUTT_POP"],
    [null |-> FALSE, readonly |-> FALSE, magic |-> "MUTT_NNTP"] }

Init ==
  /\ body \in TreesUpTo(MaxBody, InternalKinds, LeafKinds) \cup CryptoTrees
  /\ \E sec \in Securities(body) :
       hdr = [content |-> 1, security |-> sec, attach_del |-> FALSE, changed |-> FALSE]
  /\ Context \in Contexts
  /\ (Context.readonly \/ Context.magic # "MUTT_MBOX") =>
       hdr.security = {} /\ Cardinality(DOMAIN body) <= MaxBodyRO
  /\ passphrase \in IF "ENCRYPT" \in hdr.security THEN BOOLEAN ELSE {TRUE}
  /\ pc = "start"
  /\ ret = "none"
  /\ msg = "none"
  /\ need_secured = FALSE
  /\ secured = FALSE
  /\ fp = "NULL"
  /\ cur = 0
  /\ decs = <<>>
  /\ idx = <<>>
  /\ idxlen = 0
  /\ idxmax = 0
  /\ menu = NoMenu
  /\ op = "OP_NULL"
  /\ compose = FALSE
  /\ hist = Hist0

(* The session's Next and Spec follow the operations OP_SAVE, OP_PRINT and
   OP_PIPE, which are defined with the specifications that step them on their
   own. *)

(* mutt_gen_attach_list on its own: any tree, any collapsed flags, compose or
   not. *)

\* The content types of the bodies that have parts, and of those without.
FlattenTrees ==
  TreesUpTo(MaxBodyF,
            { Kind(TYPEMULTIPART, Str.mixed), Kind(TYPEMULTIPART, Str.alternative),
              Kind(TYPEMULTIPART, Str.Alternative), Kind(TYPEMULTIPART, Str.digest),
              Kind(TYPEMULTIPART, Str.encrypted), Kind(TYPEMESSAGE, Str.rfc822) },
            { Kind(TYPETEXT, Str.plain), Kind(TYPEMULTIPART, Str.mixed) })
    \cup {ScenarioAlternative, ScenarioMixed}

WithCollapsed(t, C) == [i \in DOMAIN t |-> [t[i] EXCEPT !.collapsed = i \in C]]

InitFlatten ==
  /\ \E t \in FlattenTrees :
       \E C \in SUBSET { i \in DOMAIN t : t[i].parts # 0 } : body = WithCollapsed(t, C)
  /\ compose \in BOOLEAN
  /\ hdr = [content |-> 1, security |-> {}, attach_del |-> FALSE, changed |-> FALSE]
  /\ Context = NoContext
  /\ passphrase = TRUE
  /\ pc = "flatten"
  /\ ret = "none"
  /\ msg = "none"
  /\ need_secured = FALSE
  /\ secured = FALSE
  /\ fp = "NULL"
  /\ cur = 1
  /\ decs = <<>>
  /\ idx = <<>>
  /\ idxlen = 0
  /\ idxmax = 0
  /\ menu = NoMenu
  /\ op = "OP_NULL"
  /\ hist = Hist0

\* idx = mutt_gen_attach_list(cur, -1, NULL, &idxlen, &idxmax, 0, compose)
Flatten ==
  /\ pc = "flatten"
  /\ \E st0 \in {mutt_gen_attach_list(cur, "top",
                  [idx |-> idx, idxlen |-> idxlen, idxmax |-> idxmax, body |-> body],
                  0, compose, [nul |-> 0])} :
     \E stack \in StacksSeen(st0) :
     \E st \in {mutt_gen_attach_list(cur, "top",
                 [idx |-> idx, idxlen |-> idxlen, idxmax |-> idxmax, body |-> body],
                 0, compose, stack)} :
        /\ body' = st.body
        /\ idx' = st.idx
        /\ idxlen' = st.idxlen
        /\ idxmax' = st.idxmax
  /\ pc' = "flattened"
  /\ UNCHANGED <<hdr, Context, passphrase, ret, msg, need_secured, secured, fp,
                 cur, decs, menu, op, compose, hist>>

NextFlatten == Flatten

SpecFlatten == InitFlatten /\ [][NextFlatten]_vars

(* mutt_update_tree on its own, called at line 152-153 by the call of
   mutt_gen_attach_list that flattens the message: the lists of the trees of
   SpecFlatten as the for loop of that call left them (the calls made for the
   parts of a multipart that is descended through at level 0 have run
   mutt_update_tree too; the strings they stored are written again), and the
   list of the deep chain, whose last levels do not fit buf (line 78). *)

(* The bodies lo..hi-1 of DeepChain as mutt_gen_attach_list takes them,
   compose off: a body is a message or a text, is not descended through and
   gets its entry (line 117-122, 132-139), at the level lo-1 and with the type
   of the body it is the part of, and the call for its parts (line 142-148)
   takes the next body, which has no body after it.  The bodies below mid are
   taken first, then the others; the CHOOSE from a set of one element is that
   element, taken once the first bodies have their entries. *)
RECURSIVE ListChain(_, _, _)
ListChain(lo, hi, st) ==
  IF lo >= hi THEN st
  ELSE IF hi = lo + 1
  THEN AddEntry(GrowIdx(st), lo,
                IF lo = 1 THEN "top" ELSE st.body[lo - 1].type, lo - 1)
  ELSE
    LET mid == (lo + hi) \div 2
    IN CHOOSE r \in { ListChain(mid, hi, st1) : st1 \in {ListChain(lo, mid, st)} } : TRUE

InitUpdateTree ==
  /\ \E st \in
        { GenLoop(1, "top",
                  [idx |-> <<>>, idxlen |-> 0, idxmax |-> 0,
                   body |-> WithCollapsed(t.tree, t.C)], 0, t.compose, [nul |-> 0]) :
            t \in UNION { [tree : {u}, C : SUBSET { i \in DOMAIN u : u[i].parts # 0 },
                           compose : BOOLEAN] : u \in FlattenTrees } }
        \cup { ListChain(1, DeepLevels + 1,
                         [idx |-> <<>>, idxlen |-> 0, idxmax |-> 0, body |-> DeepChain]) } :
       /\ body = st.body
       /\ idx = st.idx
       /\ idxlen = st.idxlen
       /\ idxmax = st.idxmax
  /\ compose = FALSE
  /\ hdr = [content |-> 1, security |-> {}, attach_del |-> FALSE, changed |-> FALSE]
  /\ Context = NoContext
  /\ passphrase = TRUE
  /\ pc = "update_tree"
  /\ ret = "none"
  /\ msg = "none"
  /\ need_secured = FALSE
  /\ secured = FALSE
  /\ fp = "NULL"
  /\ cur = 1
  /\ decs = <<>>
  /\ menu = NoMenu
  /\ op = "OP_NULL"
  /\ hist = Hist0

\* Line 152-153: mutt_update_tree(idx, *idxlen).
UpdateTree ==
  /\ pc = "update_tree"
  /\ \E stack \in StacksSeen([idx |-> idx, idxlen |-> idxlen]) :
     \E xs \in {mutt_update_tree(idx, idxlen, body, stack)} :
        idx' = xs
  /\ pc' = "flattened"
  /\ UNCHANGED <<hdr, Context, passphrase, ret, msg, need_secured, secured, fp,
                 cur, decs, body, idxlen, idxmax, menu, op, compose, hist>>

NextUpdateTree == UpdateTree

SpecUpdateTree == InitUpdateTree /\ [][NextUpdateTree]_vars

(* OP_SAVE on its own.  The attachment menu is open on a parsed message;
   some of the listed bodies are tagged.  hist.call holds what the operation
   runs with: the tag prefix, the resolve and attach_split options, whether
   attach_sep is set, and for each body what happens when the user is asked
   where to save it: "ok" (a file is named and mutt_save_attachment returns
   0), "cancel" (the prompt is dismissed), "ovcancel" (a file is named and
   the overwrite question is dismissed), "fail" (a file is named and
   mutt_save_attachment returns -1; the prompt that follows is dismissed).  hist.log is the
   sequence of prompts, cancellations, writes of a part and writes of the
   separator, each with the file it went to; files are numbered by the prompt
   that named them.  "redraw" is the menu_redraw of line 578, made with the
   cursor on the entry the aptr of the part names. *)

SaveAnswers == {"ok", "cancel", "ovcancel", "fail"}

SaveTrees ==
  TreesUpTo(MaxBodyS, {Kind(TYPEMULTIPART, Str.mixed)}, {Kind(TYPETEXT, Str.plain)})

WithTagged(bs, T) == [i \in DOMAIN bs |-> [bs[i] EXCEPT !.tagged = i \in T]]

\* The menu as line 1025-1040, mutt_tag_attach and at most one
\* OP_ATTACH_COLLAPSE leave it: index built, bodies of T tagged while they
\* were listed, one listed body collapsed or none, cursor on some entry.
MenuOpenOn(t, T, current) ==
  \E st0 \in Rebuilds(1, <<>>, 0, 0, WithTagged(t, T)) :
  \E k \in {0} \cup { b \in Listed(st0.idx, st0.idxlen) : t[b].parts # 0 } :
  \E st \in IF k = 0 THEN {st0}
            ELSE Rebuilds(1, st0.idx, st0.idxlen, st0.idxmax,
                          attach_collapse(st0.body, k, TRUE, FALSE, TRUE, FALSE)) :
     /\ T \subseteq Listed(st0.idx, st0.idxlen)
     /\ current \in 0..(st.idxlen - 1)
     /\ body = st.body
     /\ idx = st.idx
     /\ idxlen = st.idxlen
     /\ idxmax = st.idxmax
     /\ menu = [exists |-> TRUE, max |-> st.idxlen, current |-> current]
     /\ hdr = [content |-> 1, security |-> {}, attach_del |-> FALSE, changed |-> FALSE]
     /\ Context = [null |-> FALSE, readonly |-> FALSE, magic |-> "MUTT_MBOX"]
     /\ passphrase = TRUE
     /\ pc = "menu"
     /\ ret = "none"
     /\ msg = "open"
     /\ need_secured = FALSE
     /\ secured = FALSE
     /\ fp = "msg"
     /\ cur = 1
     /\ decs = <<>>
     /\ op = "OP_NULL"
     /\ compose = FALSE

InitSave ==
  \E t \in SaveTrees, T \in SUBSET (1..MaxBodyS), current \in 0..(MaxBodyS - 1) :
    /\ MenuOpenOn(t, T, current)
    /\ \E tagprefix, resolve, split, sep \in BOOLEAN :
       \E answer \in [DOMAIN t -> SaveAnswers] :
         /\ \A b \in DOMAIN t : (t[b].parts # 0 /\ b \notin T) => answer[b] = "ok"
         /\ hist = [Hist0 EXCEPT !.menus = 1, !.root = 1,
                      !.call = [tagprefix |-> tagprefix, resolve |-> resolve,
                                split |-> split, sep |-> sep, answer |-> answer,
                                current |-> current]]

Ev(e, b, f) == [ev |-> e, part |-> b, file |-> f]

\* The number of the file the latest prompt of the log named.
FileOf(log) == Cardinality({ i \in DOMAIN log : log[i].ev = "prompt" })

\* Line 554-559, 563-568: mutt_save_attachment(fp, top, tfile, ...) returned rc;
\* after a success the separator, if set, is appended to tfile.
Written(log, top, f, rc, sep) ==
  IF rc # 0 THEN log
  ELSE IF sep THEN log \o <<Ev("write", top, f), Ev("sep", 0, f)>>
  ELSE Append(log, Ev("write", top, f))

\* query_save_attachment(fp, body, hdr, &directory): the prompt loop, entered
\* with the message line holding message.  A dismissed prompt clears the line
\* (line 468-471); a dismissed overwrite question returns with the line as it
\* was (line 498-499).  A save that fails prompts again; the loop then ends
\* when the prompt is dismissed.
query_save_attachment(c, b, log, message) ==
  LET asked == Append(log, Ev("prompt", b, 0))
  IN IF c.answer[b] = "ok"
     THEN [rc |-> 0, log |-> Append(asked, Ev("write", b, FileOf(asked))),
           message |-> "Attachment saved."]
     ELSE IF c.answer[b] = "cancel"
     THEN [rc |-> -1, log |-> Append(asked, Ev("cancel", b, 0)), message |-> ""]
     ELSE IF c.answer[b] = "ovcancel"
     THEN [rc |-> -1, log |-> Append(asked, Ev("cancel", b, 0)), message |-> message]
     ELSE [rc |-> -1,
           log |-> asked \o <<Ev("prompt", b, 0), Ev("cancel", b, 0)>>,
           message |-> ""]

RECURSIVE SaveLoop(_, _, _, _, _, _)

\* Line 591-602: after the loop of one invocation.
SaveEnd(c, tag, loc, last, st) ==
  LET st1 == IF tag THEN [st EXCEPT !.current = last] ELSE st
  IN IF ~c.split /\ loc.rc = 0
     THEN [st1 EXCEPT !.message = "Attachment saved."]
     ELSE st1

\* Mutant: the loop breaks after the first body it looks at, tag prefix or not.
SaveStepAlwaysBreaks(c, tag, top, loc, last, st) == SaveEnd(c, tag, loc, last, st)

\* Line 587-588 and the loop increment: if (!tag) break; top = top->next.
SaveStep(c, tag, top, loc, last, st) ==
  IF ~tag THEN SaveEnd(c, tag, loc, last, st)
  ELSE SaveLoop(c, tag, body[top].next, loc, last, st)

\* Line 534-589: the loop of one invocation of mutt_save_attachment_list.
\* loc holds the locals tfile (0: buf is empty) and rc; last is the local
\* last; st is what the invocations share: the log, menu->current, the
\* message line.
SaveLoop(c, tag, top, loc, last, st) ==
  IF top = 0 THEN SaveEnd(c, tag, loc, last, st)
  ELSE IF ~tag \/ body[top].tagged
  THEN IF ~c.split
       THEN IF loc.tfile = 0
            THEN LET asked == Append(st.log, Ev("prompt", top, 0))
                     rc == IF c.answer[top] = "ok" THEN 0 ELSE -1
                 IN IF c.answer[top] \in {"cancel", "ovcancel"}
                    THEN [st EXCEPT !.log = Append(asked, Ev("cancel", top, 0))]
                    ELSE SaveStep(c, tag, top,
                                  [tfile |-> FileOf(asked), rc |-> rc], last,
                                  [st EXCEPT !.log =
                                     Written(asked, top, FileOf(asked), rc, c.sep)])
            ELSE LET rc == IF c.answer[top] = "fail" THEN -1 ELSE 0
                 IN SaveStep(c, tag, top, [loc EXCEPT !.rc = rc], last,
                             [st EXCEPT !.log =
                                Written(st.log, top, loc.tfile, rc, c.sep)])
       ELSE LET st1 == IF tag /\ body[top].aptr # -1
                       THEN [st EXCEPT !.current = idx[body[top].aptr].num,
                                       !.log = Append(@, Ev("redraw", top, 0))]
                       ELSE st
                q == query_save_attachment(c, top, st1.log, st1.message)
                st2 == [st1 EXCEPT !.log = q.log, !.message = q.message]
            IN IF q.rc = -1
               THEN SaveEnd(c, tag, loc, last, st2)
               ELSE SaveStep(c, tag, top, loc, last, st2)
  ELSE IF body[top].parts # 0
  THEN SaveStep(c, tag, top, loc, last,
                SaveLoop(c, TRUE, body[top].parts, [tfile |-> 0, rc |-> 1],
                         st.current, st))
  ELSE SaveStep(c, tag, top, loc, last, st)

\* mutt_save_attachment_list(fp, tag, top, hdr, menu)
mutt_save_attachment_list(c, tag, top, st) ==
  SaveLoop(c, tag, top, [tfile |-> 0, rc |-> 1], st.current, st)

\* Line 1112-1121: case OP_SAVE, up to the break, with inputs c of calls.
OpSaveWith(calls) ==
  /\ Fetch("OP_SAVE")
  /\ hist.log = <<>>
  /\ \E r \in { LET st == mutt_save_attachment_list(c, c.tagprefix,
                              IF c.tagprefix THEN cur ELSE CurrentBody,
                              [log |-> <<>>, current |-> menu.current,
                               message |-> ""])
                 IN [st EXCEPT !.current =
                       IF ~c.tagprefix /\ c.resolve /\ st.current < menu.max - 1
                       THEN st.current + 1 ELSE st.current] : c \in calls } :
       /\ menu' = [menu EXCEPT !.current = r.current]
       /\ hist' = [hist EXCEPT !.log = r.log, !.message = r.message]
  /\ pc' = "saved"
  /\ op' = "OP_NULL"
  /\ UNCHANGED <<body, hdr, Context, passphrase, ret, msg, need_secured, secured,
                 fp, cur, decs, idx, idxlen, idxmax, compose>>

\* OP_SAVE with the inputs the specification was started with.
OpSave == OpSaveWith({hist.call})

NextSave == OpSave

SpecSave == InitSave /\ [][NextSave]_vars

(* OP_PRINT on its own.  The menu is open as for OP_SAVE; the parts are
   text/plain, application/postscript, application/pdf,
   application/octet-stream or an application part whose subtype is the
   string "application/postscript" (the one line 762-763 sends raw).  hist.call holds the tag prefix, attach_split,
   attach_sep, the answer to the "Print ...?" question and the content types
   the mailcap has a print entry for.  hist.log is the sequence of what the
   operation did: "spawn" (the print command is started), "pipe" and "copy"
   (a part is sent to it raw or decoded), "sep", "mailcap" (the part is handed
   to mutt_print_attachment), "skip" (the part is selected and none of the
   branches of line 762-776 sends it). *)

PrintTrees ==
  TreesUpTo(MaxBodyS, {Kind(TYPEMULTIPART, Str.mixed)},
            { Kind(TYPETEXT, Str.plain), Kind(TYPEAPPLICATION, Str.postscript),
              Kind(TYPEAPPLICATION, Str.application_postscript),
              Kind(TYPEAPPLICATION, Str.pdf), Kind(TYPEAPPLICATION, Str.octet_stream) })

InitPrint ==
  \E t \in PrintTrees, T \in SUBSET (1..MaxBodyS), current \in 0..(MaxBodyS - 1) :
    /\ MenuOpenOn(t, T, current)
    /\ \E tagprefix, split, sep, confirm \in BOOLEAN, mailcap \in { {}, {Kind(TYPEAPPLICATION, Str.pdf)} } :
         hist = [Hist0 EXCEPT !.menus = 1, !.root = 1,
                   !.call = [tagprefix |-> tagprefix, split |-> split, sep |-> sep,
                             confirm |-> confirm, mailcap |-> mailcap,
                             current |-> current]]

\* rfc1524_mailcap_lookup(top, type, NULL, MUTT_PRINT)
rfc1524_mailcap_lookup(c, b) == Kind(body[b].type, body[b].subtype) \in c.mailcap

\* mutt_can_decode(top): text and message bodies, and a multipart with a part
\* that can be decoded.
RECURSIVE mutt_can_decode(_)
mutt_can_decode(b) ==
  \/ body[b].type \in {TYPETEXT, TYPEMESSAGE}
  \/ /\ body[b].type = TYPEMULTIPART
     /\ \E p \in Chain(body, body[b].parts) : mutt_can_decode(p)

\* Line 730-731, 762-763: the two comparisons are made with the subtype alone.
RawPrintable(b) ==
  \/ StrCaseEq(Str.text_plain, body[b].subtype)
  \/ StrCaseEq(Str.application_postscript, body[b].subtype)

\* Line 728-739: what can_print asks of one selected part.
PrintTest(c, b) ==
  \/ rfc1524_mailcap_lookup(c, b)
  \/ RawPrintable(b)
  \/ mutt_can_decode(b)

\* can_print(top, tag)
RECURSIVE can_print(_, _, _)
can_print(c, top, tag) ==
  IF top = 0 THEN TRUE
  ELSE IF ~tag \/ body[top].tagged
  THEN IF ~PrintTest(c, top) THEN FALSE
       ELSE IF ~tag THEN TRUE ELSE can_print(c, body[top].next, tag)
  ELSE IF body[top].parts # 0 THEN can_print(c, body[top].parts, tag)
  ELSE IF ~tag THEN TRUE ELSE can_print(c, body[top].next, tag)

\* Line 758-781: one selected part of print_attachment_list.  pipe_attachment
\* (line 762-764) writes the separator after the part, as the decode branch
\* does.
PrintPart(c, b, log) ==
  IF ~c.split /\ ~rfc1524_mailcap_lookup(c, b)
  THEN IF RawPrintable(b)
       THEN IF c.sep THEN log \o <<Ev("pipe", b, 0), Ev("sep", 0, 0)>>
            ELSE Append(log, Ev("pipe", b, 0))
       ELSE IF mutt_can_decode(b)
       THEN IF c.sep THEN log \o <<Ev("copy", b, 0), Ev("sep", 0, 0)>>
            ELSE Append(log, Ev("copy", b, 0))
       ELSE Append(log, Ev("skip", b, 0))
  ELSE Append(log, Ev("mailcap", b, 0))

\* print_attachment_list(fp, tag, top, state)
RECURSIVE print_attachment_list(_, _, _, _)
print_attachment_list(c, tag, top, log) ==
  IF top = 0 THEN log
  ELSE LET log1 == IF ~tag \/ body[top].tagged THEN PrintPart(c, top, log)
                   ELSE IF body[top].parts # 0
                   THEN print_attachment_list(c, tag, body[top].parts, log)
                   ELSE log
       IN IF ~tag THEN log1 ELSE print_attachment_list(c, tag, body[top].next, log1)

\* mutt_print_attachment_list(fp, tag, top): the log and the message line.
mutt_print_attachment_list(c, tag, top) ==
  IF ~c.confirm THEN [log |-> <<>>, message |-> ""]
  ELSE IF ~c.split
  THEN IF ~can_print(c, top, tag)
       THEN [log |-> <<>>, message |-> "I don't know how to print %s attachments!"]
       ELSE [log |-> print_attachment_list(c, tag, top, <<Ev("spawn", 0, 0)>>),
             message |-> ""]
  ELSE [log |-> print_attachment_list(c, tag, top, <<>>), message |-> ""]

\* Line 1102-1105: case OP_PRINT, up to the break, with inputs c of calls.
OpPrintWith(calls) ==
  /\ Fetch("OP_PRINT")
  /\ \E r \in { mutt_print_attachment_list(c, c.tagprefix,
                   IF c.tagprefix THEN cur ELSE CurrentBody) : c \in calls } :
       hist' = [hist EXCEPT !.log = r.log, !.message = r.message]
  /\ pc' = "printed"
  /\ op' = "OP_NULL"
  /\ UNCHANGED <<body, hdr, Context, passphrase, ret, msg, need_secured, secured,
                 fp, cur, decs, idx, idxlen, idxmax, menu, compose>>

\* OP_PRINT with the inputs the specification was started with.
OpPrint == OpPrintWith({hist.call})

NextPrint == OpPrint

SpecPrint == InitPrint /\ [][NextPrint]_vars

(* OP_PIPE on its own.  The menu is open as for OP_SAVE.  hist.call holds the
   tag prefix, attach_split, attach_sep and whether the "Pipe to: " prompt
   was answered with a command.  hist.log: "spawn" (a command is started:
   part 0 for the one command of line 708, the part for the command
   mutt_pipe_attachment starts for it), "copy" (the part is decoded into the
   command), "sep". *)

InitPipe ==
  \E t \in SaveTrees, T \in SUBSET (1..MaxBodyS), current \in 0..(MaxBodyS - 1) :
    /\ MenuOpenOn(t, T, current)
    /\ \E tagprefix, split, sep, command \in BOOLEAN :
         hist = [Hist0 EXCEPT !.menus = 1, !.root = 1,
                   !.call = [tagprefix |-> tagprefix, split |-> split, sep |-> sep,
                             command |-> command, current |-> current]]

\* query_pipe_attachment(command, fp, body, 0): mutt_pipe_attachment starts
\* the command for this part.
query_pipe_attachment(b, log) ==
  log \o <<Ev("spawn", b, 0), Ev("copy", b, 0)>>

\* pipe_attachment(fp, b, state) with fp set.
pipe_attachment(c, b, log) ==
  IF c.sep THEN log \o <<Ev("copy", b, 0), Ev("sep", 0, 0)>>
  ELSE Append(log, Ev("copy", b, 0))

\* pipe_attachment_list(command, fp, tag, top, 0, state)
RECURSIVE pipe_attachment_list(_, _, _, _)
pipe_attachment_list(c, tag, top, log) ==
  IF top = 0 THEN log
  ELSE LET log1 == IF ~tag \/ body[top].tagged
                   THEN IF ~c.split THEN pipe_attachment(c, top, log)
                        ELSE query_pipe_attachment(top, log)
                   ELSE IF body[top].parts # 0
                   THEN pipe_attachment_list(c, tag, body[top].parts, log)
                   ELSE log
       IN IF ~tag THEN log1 ELSE pipe_attachment_list(c, tag, body[top].next, log1)

\* mutt_pipe_attachment_list(fp, tag, top, 0): fp is set, so filter is 0.
mutt_pipe_attachment_list(c, tag, top) ==
  IF ~c.command THEN <<>>
  ELSE IF ~c.split
  THEN pipe_attachment_list(c, tag, top, <<Ev("spawn", 0, 0)>>)
  ELSE pipe_attachment_list(c, tag, top, <<>>)

\* Line 1107-1110: case OP_PIPE, up to the break, with inputs c of calls.
OpPipeWith(calls) ==
  /\ Fetch("OP_PIPE")
  /\ \E log \in { mutt_pipe_attachment_list(c, c.tagprefix,
                     IF c.tagprefix THEN cur ELSE CurrentBody) : c \in calls } :
       hist' = [hist EXCEPT !.log = log, !.message = ""]
  /\ pc' = "piped"
  /\ op' = "OP_NULL"
  /\ UNCHANGED <<body, hdr, Context, passphrase, ret, msg, need_secured, secured,
                 fp, cur, decs, idx, idxlen, idxmax, menu, compose>>

\* OP_PIPE with the inputs the specification was started with.
OpPipe == OpPipeWith({hist.call})

(* OP_SAVE, OP_PRINT and OP_PIPE inside the session, with every input the
   operations take: the tag prefix, resolve, attach_split, attach_sep, what
   happens at each prompt, the answer to the print question, the mailcap and
   whether a pipe command is named.  An input the operation does not read
   with the others as they are is drawn once: resolve with the tag prefix
   (line 1117), attach_sep in a split save (line 570-583), the answer for a
   body the walk cannot ask about (one that is neither tagged nor under the
   cursor), and with the print question answered no or no pipe command named
   the options that are read after it.  pc is "saved", "printed" or "piped"
   at the break, with hist.log what the operation did; the loop then goes
   round (line 1314) and hist.log starts empty for the next one. *)

\* Line 1112-1121
SessionSave ==
  /\ Fetch("OP_SAVE")
  /\ OpSaveWith(UNION {
        { [ tagprefix |-> tagprefix, resolve |-> o.resolve, split |-> o.split,
            sep |-> o.sep, current |-> menu.current,
            answer |-> [b \in DOMAIN body |-> IF b \in DOMAIN a THEN a[b] ELSE "ok"] ] :
            o \in { o \in [resolve : BOOLEAN, split : BOOLEAN, sep : BOOLEAN] :
                      (tagprefix => ~o.resolve) /\ (o.split => ~o.sep) },
            a \in [ IF tagprefix THEN { b \in DOMAIN body : body[b].tagged }
                    ELSE {CurrentBody} -> SaveAnswers ] } :
        tagprefix \in BOOLEAN })

\* Line 1102-1105
SessionPrint ==
  /\ Fetch("OP_PRINT")
  /\ OpPrintWith({ c \in [ tagprefix : BOOLEAN, split : BOOLEAN, sep : BOOLEAN,
                         confirm : BOOLEAN,
                         mailcap : { {}, {Kind(TYPEAPPLICATION, Str.pdf)} },
                         current : {menu.current} ] :
                  /\ ~c.confirm => ~c.tagprefix /\ ~c.split /\ ~c.sep /\ c.mailcap = {}
                  /\ c.split => ~c.sep })

\* Line 1107-1110
SessionPipe ==
  /\ Fetch("OP_PIPE")
  /\ OpPipeWith({ c \in [ tagprefix : BOOLEAN, split : BOOLEAN, sep : BOOLEAN,
                         command : BOOLEAN, current : {menu.current} ] :
                  /\ ~c.command => ~c.tagprefix /\ ~c.split /\ ~c.sep
                  /\ c.split => ~c.sep })

\* Line 1314 and 1042: after the break of OP_SAVE, OP_PRINT or OP_PIPE the
\* loop goes round.
LoopAgain ==
  /\ pc \in {"saved", "printed", "piped"}
  /\ pc' = "menu"
  /\ hist' = [hist EXCEPT !.log = <<>>]
  /\ UNCHANGED <<body, hdr, Context, passphrase, ret, msg, need_secured, secured,
                 fp, cur, decs, idx, idxlen, idxmax, menu, op, compose>>

(* The session. *)
Next ==
  \/ ViewStart
  \/ SmimeStep
  \/ PgpStep
  \/ CheckSecured
  \/ Install
  \/ MenuMove
  \/ MenuTag
  \/ ContextLost
  \/ OpAttachCollapse
  \/ OpDelete
  \/ OpUndelete
  \/ OpEditType
  \/ OpCheckTraditional
  \/ OpQuiet
  \/ OpSend
  \/ SessionSave
  \/ SessionPrint
  \/ SessionPipe
  \/ LoopAgain
  \/ OpExit
  \/ OpViewAttach
  \/ ViewAgain
  \/ ViewNext
  \/ ViewPrev
  \/ ViewEditType
  \/ ViewCheckTraditional
  \/ ViewCollapse
  \/ ViewerReturns
  \/ ViewerLosesContext
  \/ ViewOther

Spec == Init /\ [][Next]_vars

(* OP_SAVE, OP_PIPE or OP_PRINT on the open menu: the three operations that
   walk the tagged parts.  The operation made is the one hist.call holds the
   inputs of. *)

InitTagged == InitSave \/ InitPipe \/ InitPrint

NextTagged ==
  \/ "answer" \in DOMAIN hist.call /\ OpSave
  \/ "command" \in DOMAIN hist.call /\ OpPipe
  \/ "confirm" \in DOMAIN hist.call /\ OpPrint

SpecTagged == InitTagged /\ [][NextTagged]_vars

(* attach_collapse on its own, followed by update_attach_index, twice in a
   row with the same arguments: the menu is open on any tree of up to
   MaxBodyF bodies with any collapsed flags and the index built from them,
   the cursor on any entry;
   the call is made on any node with any arguments (collapse, init,
   just_one), digest_collapse set or not.  hist.call holds the node, the
   arguments and the option; hist.log the collapsed flags and the entry list
   after each call. *)

\* Mutant: init is passed as 0 in every call.
CollapseCallNoInit(bs, b, a, dc) ==
  attach_collapse(bs, b, a.collapse, FALSE, a.just_one, dc)

\* attach_collapse(b, collapse, init, just_one) with the arguments a.
CollapseCall(bs, b, a, dc) ==
  attach_collapse(bs, b, a.collapse, a.init, a.just_one, dc)

InitCollapse ==
  /\ \E t \in TreesUpTo(MaxBodyF, InternalKinds, LeafKinds) :
     \E C \in SUBSET DOMAIN t :
     \E st \in Rebuilds(1, <<>>, 0, 0, WithCollapsed(t, C)) :
        /\ body = st.body
        /\ idx = st.idx
        /\ idxlen = st.idxlen
        /\ idxmax = st.idxmax
        /\ \E current \in 0..(st.idxlen - 1) :
             menu = [exists |-> TRUE, max |-> st.idxlen, current |-> current]
  /\ \E b \in DOMAIN body, dc \in BOOLEAN,
        a \in [collapse : BOOLEAN, init : BOOLEAN, just_one : BOOLEAN] :
       hist = [Hist0 EXCEPT !.call = [node |-> b, args |-> a, dc |-> dc]]
  /\ compose = FALSE
  /\ hdr = [content |-> 1, security |-> {}, attach_del |-> FALSE, changed |-> FALSE]
  /\ Context = [null |-> FALSE, readonly |-> FALSE, magic |-> "MUTT_MBOX"]
  /\ passphrase = TRUE
  /\ pc = "collapse"
  /\ ret = "none"
  /\ msg = "open"
  /\ need_secured = FALSE
  /\ secured = FALSE
  /\ fp = "msg"
  /\ cur = 1
  /\ decs = <<>>
  /\ op = "OP_NULL"

\* The collapsed flags of the bodies.
CollapsedFlags(bs) == [b \in DOMAIN bs |-> bs[b].collapsed]

\* The bodies and levels of the entries of an index state, in order.
EntryListOf(st) ==
  [i \in 1..st.idxlen |-> <<st.idx[i - 1].content, st.idx[i - 1].level>>]

\* attach_collapse(node, collapse, init, just_one);
\* update_attach_index(cur, &idx, &idxlen, &idxmax, menu)
Collapse ==
  /\ pc = "collapse"
  /\ Len(hist.log) < 2
  /\ \E bs \in {CollapseCall(body, hist.call.node, hist.call.args, hist.call.dc)} :
     \E st \in Rebuilds(cur, idx, idxlen, idxmax, bs) :
        /\ SetIndex(st, menu.current)
        /\ hist' = [hist EXCEPT !.log =
                      Append(@, [flags |-> CollapsedFlags(st.body),
                                 list |-> EntryListOf(st)])]
  /\ UNCHANGED <<hdr, Context, passphrase, pc, ret, msg, need_secured, secured, fp,
                 cur, decs, op, compose>>

NextCollapse == Collapse

SpecCollapse == InitCollapse /\ [][NextCollapse]_vars

(* OP_ATTACH_COLLAPSE on its own: the menu is open on any tree of up to
   MaxBodyF bodies, so that a body with parts can have a body after it, with
   one listed body collapsed or none, the cursor on any entry; from there
   the cursor moves and the operation is made any number of times. *)

InitToggle ==
  /\ \E t \in FlattenTrees : \E current \in 0..(Cardinality(DOMAIN t) - 1) :
       MenuOpenOn(t, {}, current)
  /\ hist = Hist0

NextToggle == OpAttachCollapse \/ MenuMove

SpecToggle == InitToggle /\ [][NextToggle]_vars

(* ================================ claims ============================== *)

\* The index exists: the main loop or the view loop is running.
InSession == pc \in {"menu", "view"}

HasEntry(b) == \E i \in 0..(idxlen - 1) : idx[i].content = b

EntriesOf(b) == { i \in 0..(idxlen - 1) : idx[i].content = b }

\* The bodies under b.
Descendants(b) == Reachable(body, body[b].parts)

\* The type and shape of a tree, without the flags.
Skeleton(t) ==
  [i \in DOMAIN t |-> [type |-> t[i].type, subtype |-> t[i].subtype,
                       parts |-> t[i].parts, next |-> t[i].next]]

NothingCollapsed == \A b \in DOMAIN body : ~body[b].collapsed

\* The bodies and levels of the entries, in order.
EntryList == [i \in 1..idxlen |-> <<idx[i - 1].content, idx[i - 1].level>>]

(* C1: whenever the index exists (after the first build and after every
   rebuild by ATTACH_COLLAPSE or EDIT_TYPE, in the main loop or the view
   loop), the entry at position i has num = i and lists a body whose aptr is
   that entry; so no body is listed twice and the indices are dense. *)
C1_IndexConsistent ==
  InSession =>
    /\ \A i \in 0..(idxlen - 1) :
         /\ idx[i].alloc
         /\ idx[i].num = i
         /\ idx[i].content # 0
         /\ body[idx[i].content].aptr = i
    /\ \A i, j \in 0..(idxlen - 1) : idx[i].content = idx[j].content => i = j

\* An index rebuilt after a content-type edit in the view loop: the edited
\* multipart lost its entry and the two parts moved up into slots 0 and 1.
C1_Witness ==
  /\ pc = "view"
  /\ hist.edits = 1
  /\ idxlen = 2
  /\ idxmax > idxlen
  /\ \E b \in DOMAIN body : ~HasEntry(b) /\ body[b].parts # 0 /\ HasEntry(body[b].parts)

(* C2: mutt_gen_attach_list descends through a multipart body that has parts
   (no entry for it, its parts listed in its place at its level) exactly when
   it is not an encrypted multipart and either compose is on or it is on the
   top-level chain and its subtype is not "alternative" in any case; every
   other body visited gets exactly one entry.  The claim's own reading of the
   tree: *)
C2_Descended(b) ==
  /\ body[b].type = TYPEMULTIPART
  /\ body[b].parts # 0
  /\ ~(body[b].type = TYPEMULTIPART /\ Lower(body[b].subtype) = Str.encrypted)
  /\ \/ compose
     \/ ParentOf(body, b) = 0 /\ Lower(body[b].subtype) # Str.alternative

\* The parts of a listed body are shown under it (as C5 states it).
C5_Shown(b) ==
  /\ ~body[b].collapsed
  /\ \/ /\ body[b].type = TYPEMULTIPART
        /\ Lower(body[b].subtype) # Str.encrypted
     \/ /\ body[b].type = TYPEMESSAGE
        /\ Lower(body[b].subtype) \in {Str.rfc822, Str.news}

RECURSIVE C2_Visited(_)
C2_Visited(b) ==
  LET p == ParentOf(body, b)
  IN \/ p = 0
     \/ /\ C2_Visited(p)
        /\ C2_Descended(p) \/ (~compose /\ C5_Shown(p))

RECURSIVE C2_Level(_)
C2_Level(b) ==
  LET p == ParentOf(body, b)
  IN IF p = 0 THEN 0
     ELSE IF C2_Descended(p) THEN C2_Level(p) ELSE C2_Level(p) + 1

C2_DescendRule ==
  pc = "flattened" =>
    \A b \in DOMAIN body :
      /\ Cardinality(EntriesOf(b)) =
           IF C2_Visited(b) /\ ~C2_Descended(b) THEN 1 ELSE 0
      /\ \A i \in EntriesOf(b) : idx[i].level = C2_Level(b)

\* Compose mode: a multipart under another multipart was descended through,
\* and its parts are listed at the top level.
C2_Witness ==
  /\ pc = "flattened"
  /\ compose
  /\ \E b \in DOMAIN body :
       /\ ParentOf(body, b) # 0
       /\ C2_Descended(b)
       /\ ~HasEntry(b)
       /\ HasEntry(body[b].parts)
       /\ idx[body[body[b].parts].aptr].level = 0

(* C3 as the spec states it: flattening (no compose, nothing collapsed) a root
   multipart/alternative with parts text/plain and text/html gives exactly
   two entries, text/plain then text/html, both at level 0; the wrapper is
   not listed. *)
C3_Case ==
  /\ pc = "flattened"
  /\ ~compose
  /\ NothingCollapsed
  /\ Skeleton(body) = Skeleton(ScenarioAlternative)

C3_Original == C3_Case => EntryList = << <<2, 0>>, <<3, 0>> >>

(* C3 amended: the same flattening gives three entries: the
   multipart/alternative wrapper at level 0, then text/plain and text/html at
   level 1. *)
C3_AlternativeListed == C3_Case => EntryList = << <<1, 0>>, <<2, 1>>, <<3, 1>> >>

C3_Witness == C3_Case /\ idxlen = 3

(* C4 as the spec states it: flattening (no compose, nothing collapsed) a root
   multipart/mixed with parts multipart/alternative [text/plain, text/html]
   and application/pdf lists multipart/alternative at level 1 with its
   parts beneath it and application/pdf at level 1; the multipart/mixed
   wrapper is not listed. *)
C4_Case ==
  /\ pc = "flattened"
  /\ ~compose
  /\ NothingCollapsed
  /\ Skeleton(body) = Skeleton(ScenarioMixed)

C4_Original ==
  C4_Case => EntryList = << <<2, 1>>, <<3, 2>>, <<4, 2>>, <<5, 1>> >>

(* C4 amended: the same flattening lists multipart/alternative at level 0
   with its parts beneath it at level 1, and application/pdf at level 0; the
   multipart/mixed wrapper is not listed. *)
C4_MixedDescended ==
  C4_Case => EntryList = << <<2, 0>>, <<3, 1>>, <<4, 1>>, <<5, 0>> >>

C4_Witness == C4_Case /\ idxlen = 4 /\ ~HasEntry(1)

(* C5: without compose, the parts of a body that has an entry are listed
   right after it, one level deeper, exactly when the body is not collapsed
   and is a multipart that is not encrypted or a message/rfc822 or
   message/news. *)
C5_PartsRule ==
  \A i \in 0..(idxlen - 1) :
    LET b == idx[i].content
        kids == Chain(body, body[b].parts)
    IN body[b].parts # 0 =>
         IF C5_Shown(b)
         THEN /\ i + 1 < idxlen
              /\ idx[i + 1].content = body[b].parts
              /\ \A c \in kids : HasEntry(c) /\ idx[body[c].aptr].level = idx[i].level + 1
         ELSE \A c \in kids : ~HasEntry(c)

\* No body under an encrypted multipart is listed.
C5_EncryptedOpaque ==
  \A b \in DOMAIN body :
    (body[b].type = TYPEMULTIPART /\ Lower(body[b].subtype) = Str.encrypted)
      => \A d \in Descendants(b) : ~HasEntry(d)

(* C5 as stated: ... and in particular no body under a collapsed body and no
   body under an encrypted multipart ever has an entry. *)
C5_Original ==
  InSession =>
    /\ C5_PartsRule
    /\ C5_EncryptedOpaque
    /\ \A b \in DOMAIN body :
         body[b].collapsed => \A d \in Descendants(b) : ~HasEntry(d)

(* C5 amended: ... and in particular no body under a collapsed body that has
   an entry, and no body under an encrypted multipart, ever has an entry. *)
C5_PartsShown ==
  InSession =>
    /\ C5_PartsRule
    /\ C5_EncryptedOpaque
    /\ \A b \in DOMAIN body :
         (body[b].collapsed /\ HasEntry(b)) => \A d \in Descendants(b) : ~HasEntry(d)

\* A listed body was collapsed: its two parts, listed before, have no entry
\* now.
C5_Witness ==
  /\ pc = "menu"
  /\ idxlen = 1
  /\ \E b \in DOMAIN body :
       /\ HasEntry(b)
       /\ body[b].collapsed
       /\ body[b].parts # 0
       /\ body[body[b].parts].next # 0
       /\ body[body[b].parts].aptr # -1
       /\ \A d \in Descendants(b) : ~HasEntry(d)

\* The function returned through the EXIT handler.
Exited == pc = "done" /\ ret = "exit"

(* C6: after the EXIT handler every body that had an entry at any time in the
   session has its aptr cleared, the bodies a collapse has hidden included, and
   the body tree of the raw message was never freed. *)
C6_AptrCleared ==
  Exited =>
    /\ \A b \in DOMAIN body : body[b].aptr = -1
    /\ hist.raw_frees = 0

(* C7: on EXIT attach_del is set exactly when a body of the tree shown is
   marked deleted, the bodies a collapse has hidden included, and whenever
   attach_del is set changed is set too. *)
C7_AttachDel ==
  Exited =>
    /\ hdr.attach_del <=> \E b \in Reachable(body, hist.root) : body[b].deleted
    /\ hdr.attach_del => hdr.changed

(* C8: whatever the security flags (S/MIME and PGP both set included), every
   decrypted file and body the function produced has been closed and freed
   exactly once when it returns through EXIT or through an abort. *)
C8_ReleasedOnce ==
  (pc = "done" /\ ret \in {"exit", "no_passphrase", "cant_decrypt"}) =>
    \A k \in DOMAIN decs : decs[k].closes = 1 /\ decs[k].frees = 1

\* Both decryptions of a nested S/MIME message succeeded.
NestedDecrypted ==
  /\ Len(decs) = 2
  /\ decs[1].by = "smime"
  /\ decs[2].by = "nested"

(* C9: when both decryptions of a nested S/MIME message succeed, the menu
   shows the innermost tree, the intermediate file and body were released
   before the menu was created, and the innermost pair is released exactly
   once on EXIT. *)
C9_NestedSmime ==
  NestedDecrypted =>
    /\ (InSession \/ Exited) => decs[1].closes = 1 /\ decs[1].frees = 1
    /\ InSession =>
         /\ hist.root = decs[2].root
         /\ fp = decs[2].file
         /\ decs[2].closes = 0 /\ decs[2].frees = 0
    /\ Exited => decs[2].closes = 1 /\ decs[2].frees = 1

\* The message is encrypted and the passphrase is not available, or the last
\* decryption that was tried failed.
MustAbort ==
  \/ pc # "start" /\ ~passphrase
  \/ pc \notin {"start", "smime", "pgp"} /\ hist.failed # {} /\ ~secured

(* C10: when the message is encrypted and no passphrase is available, or a
   decryption was needed and did not succeed, the function returns before the
   main loop: the message is closed, no menu was created, no index was built
   and no flag of a body has changed. *)
C10_AbortBeforeMenu ==
  MustAbort =>
    /\ pc \in {"check", "done"}
    /\ pc = "done" =>
         /\ ret \in {"no_message", "no_passphrase", "cant_decrypt"}
         /\ ret # "no_message" => msg = "closed"
         /\ hist.menus = 0
         /\ ~menu.exists
         /\ idxlen = 0 /\ idxmax = 0
         /\ \A b \in DOMAIN hist.body0 : body[b] = hist.body0[b]

\* The deleted flags of the bodies are what they were.
DeletedUnchanged ==
  \A b \in DOMAIN body : b \in DOMAIN body' /\ body'[b].deleted = body[b].deleted

(* C11: while the mailbox is read-only no step of the session changes the
   deleted flag of a body; DELETE and UNDELETE, with the tag prefix or without
   it, leave the bodies and the cursor as they are and say "Mailbox is
   read-only.". *)
C11_ReadOnly ==
  [][Context.readonly =>
       /\ DeletedUnchanged
       /\ \A t, r \in BOOLEAN :
            (OpDeleteWith(t, r) \/ OpUndeleteWith(t, r)) =>
              /\ body' = body
              /\ menu' = menu
              /\ hist'.message = Mailbox_is_read_only]_vars

\* A read-only mailbox: DELETE or UNDELETE has just been refused with the
\* cursor on the second entry and a tagged body in the list.
C11_Witness ==
  /\ Context.readonly
  /\ pc = "menu"
  /\ hist.message = Mailbox_is_read_only
  /\ menu.current = 1
  /\ \E b \in DOMAIN body : HasEntry(b) /\ body[b].tagged /\ ~body[b].deleted

\* The type of the body whose parts chain holds b ("top": none).
EnclosingType(b) ==
  IF ParentOf(body, b) = 0 THEN "top" ELSE body[ParentOf(body, b)].type

\* The tree shown is one text/plain body.
LoneTextPlain ==
  /\ hist.root # 0
  /\ body[hist.root].type = TYPETEXT
  /\ body[hist.root].subtype = Str.plain
  /\ body[hist.root].parts = 0
  /\ body[hist.root].next = 0

(* C12: the deleted flag of a body goes from false to true only in a DELETE
   step, with a mailbox that is not read-only, not POP and not NNTP, a header
   that is not encrypted, and an entry whose parent_type is multipart.  A
   top-level text/plain on its own is never deleted and attach_del is false
   after EXIT.  On a signed message DELETE on an entry with a multipart parent
   warns and deletes. *)
C12_DeleteGuards ==
  /\ [][/\ \A b \in DOMAIN body :
             (b \in DOMAIN body' /\ ~body[b].deleted /\ body'[b].deleted) =>
               /\ \E t, r \in BOOLEAN : OpDeleteWith(t, r)
               /\ ~Context.readonly
               /\ Context.magic \notin {"MUTT_POP", "MUTT_NNTP"}
               /\ "ENCRYPT" \notin hdr.security
               /\ HasEntry(b)
               /\ idx[body[b].aptr].parent_type = TYPEMULTIPART
        /\ \A r \in BOOLEAN :
             ( /\ OpDeleteWith(FALSE, r)
               /\ "SIGN" \in hdr.security
               /\ ~Context.readonly
               /\ Context.magic \notin {"MUTT_POP", "MUTT_NNTP"}
               /\ "ENCRYPT" \notin hdr.security
               /\ EnclosingType(CurrentBody) = TYPEMULTIPART ) =>
               /\ body'[CurrentBody].deleted
               /\ hist'.message = SignedWarning]_vars
  /\ [](LoneTextPlain =>
          /\ \A b \in DOMAIN body : ~body[b].deleted
          /\ ~hdr.attach_del)

\* A signed message: DELETE has warned and deleted a part of a multipart, and
\* the session has not ended.
C12_Witness ==
  /\ pc = "menu"
  /\ "SIGN" \in hdr.security
  /\ hist.message = "Deletion of attachments from signed messages may invalidate the signature."
  /\ \E b \in DOMAIN body :
       body[b].deleted /\ HasEntry(b) /\ EnclosingType(b) = TYPEMULTIPART

(* C13: with the tag prefix DELETE marks deleted every tagged body of the tree
   shown whose enclosing parent is a multipart, listed or not, and UNDELETE
   with the tag prefix clears deleted on every tagged body of the tree. *)
C13_TagPrefixAll ==
  [][\A r \in BOOLEAN :
       /\ (OpDeleteWith(TRUE, r) /\ ~DeleteRefused) =>
            \A b \in Reachable(body, cur) :
              (body[b].tagged /\ EnclosingType(b) = TYPEMULTIPART) => body'[b].deleted
       /\ (OpUndeleteWith(TRUE, r) /\ ~Context.readonly) =>
            \A b \in Reachable(body, cur) : body[b].tagged => ~body'[b].deleted]_vars

(* C19 as stated: when the viewer hands the view loop an operation the loop
   has no case for (SAVE, DELETE, EXIT), the loop exits and returns that same
   operation to its caller. *)
C19_Original ==
  [][(pc = "view" /\ op \in OtherOps) => (pc' = "menu" /\ op' = op)]_vars

(* C19 amended: when the viewer hands the view loop an operation the loop has
   no case for, the loop exits and returns OP_NULL to its caller; the
   operation is dropped and nothing else changes. *)
C19_OtherOpsDropped ==
  [][(pc = "view" /\ op \in OtherOps) =>
       /\ pc' = "menu"
       /\ op' = "OP_NULL"
       /\ UNCHANGED <<body, hdr, menu, idx, idxlen, idxmax, msg, ret>>]_vars

\* The viewer has handed OP_SAVE to the loop, with the cursor off the first
\* entry.
C19_Witness ==
  /\ pc = "view"
  /\ op = "OP_SAVE"
  /\ menu.current > 0

(* C20: once the main loop has been entered the function returns only through
   EXIT, and then the message is closed, the index freed and the menu
   destroyed; nothing else leaves the main loop. *)
C20_OnlyExitReturns ==
  (hist.menus > 0 /\ pc = "done") =>
    /\ ret = "exit"
    /\ msg = "closed"
    /\ idx = <<>> /\ idxmax = 0
    /\ ~menu.exists

\* OP_SAVE has been handled: at the break of line 1121.
Saved == pc = "saved"

\* Events of the log that put something into a file.
IsOutput(e) == e.ev \in {"write", "sep"}

Prompts(log) == { i \in DOMAIN log : log[i].ev = "prompt" }

\* The tagged bodies of the tree shown that a walk of the tagged parts comes
\* to: those with no tagged body above them.
TaggedParts ==
  { b \in Reachable(body, cur) :
      /\ body[b].tagged
      /\ \A a \in DOMAIN body : (b \in Descendants(a) /\ a # b) => ~body[a].tagged }

(* C14: after SAVE without the tag prefix the cursor is one further exactly
   when the part was saved, resolve is set and the cursor was not on the last
   entry; after a cancelled or failed save it is where it was. *)
C14_CursorAfterSave ==
  (Saved /\ ~hist.call.tagprefix) =>
    LET saved == \E i \in DOMAIN hist.log : hist.log[i].ev = "write"
    IN menu.current =
         IF saved /\ hist.call.resolve /\ hist.call.current < menu.max - 1
         THEN hist.call.current + 1
         ELSE hist.call.current

(* C15: with attach_split off one SAVE with the tag prefix prompts for a file
   exactly once (if a tagged part is found), and every tagged part written
   goes to that one file, in document order, wherever the tagged parts are
   in the tree. *)
C15_OnePrompt ==
  (Saved /\ hist.call.tagprefix /\ ~hist.call.split) =>
    /\ Cardinality(Prompts(hist.log)) = IF TaggedParts = {} THEN 0 ELSE 1
    /\ \A i \in DOMAIN hist.log : IsOutput(hist.log[i]) => hist.log[i].file = 1
    /\ \A i, j \in DOMAIN hist.log :
         (i < j /\ hist.log[i].ev = "write" /\ hist.log[j].ev = "write") =>
           hist.log[i].part < hist.log[j].part

(* C16: with attach_split off and attach_sep set, the file holds part 1,
   separator, part 2, ..., separator, part k: a separator only between two
   parts, k-1 of them, none after the last part. *)
C16_SeparatorBetween ==
  (Saved /\ ~hist.call.split /\ hist.call.sep) =>
    LET w == SelectSeq(hist.log, IsOutput)
    IN \A i \in DOMAIN w :
         /\ w[i].ev = "sep" =>
              /\ i > 1 /\ w[i - 1].ev = "write" /\ w[i - 1].file = w[i].file
              /\ i < Len(w) /\ w[i + 1].ev = "write" /\ w[i + 1].file = w[i].file
         /\ (w[i].ev = "write" /\ i < Len(w) /\ w[i + 1].file = w[i].file) =>
              w[i + 1].ev = "sep"

(* C17: with attach_split on and the tag prefix, once a prompt is cancelled
   nothing more is asked or written in that SAVE: the cancellation is the
   last event; and the cursor ends where it was before the operation. *)
C17_CancelAborts ==
  (Saved /\ hist.call.split /\ hist.call.tagprefix) =>
    /\ \A i \in DOMAIN hist.log : hist.log[i].ev = "cancel" => i = Len(hist.log)
    /\ menu.current = hist.call.current

(* C18: with attach_split off and the tag prefix, the print command is
   started exactly when the question is answered yes and every tagged part
   that would be printed passes the test of can_print; if one of them does
   not, nothing is started. *)
C18_AllPrintable ==
  (pc = "printed" /\ hist.call.tagprefix /\ ~hist.call.split) =>
    ( (\E i \in DOMAIN hist.log : hist.log[i].ev = "spawn")
        <=> (hist.call.confirm /\ \A b \in TaggedParts : PrintTest(hist.call, b)) )

(* C21 as stated: after any ATTACH_COLLAPSE the rebuilt entry list is no
   longer than the entry list before the operation. *)
C21_Original ==
  [][(pc = "menu" /\ idxlen' > idxlen) => ~OpAttachCollapse]_vars

\* An ATTACH_COLLAPSE step.  Every such step flips a collapsed flag or says
\* that there are no subparts, and that is tested first.
CollapseStep ==
  /\ pc = "menu"
  /\ \/ hist'.message = "There are no subparts to show!"
     \/ \E b \in DOMAIN body : body'[b].collapsed # body[b].collapsed
  /\ OpAttachCollapse

\* The listed bodies below b.
ListedBelow(b) == { d \in Descendants(b) \ {b} : HasEntry(d) }

(* C21 amended: ATTACH_COLLAPSE on an open body with parts (a collapse)
   removes exactly the entries of the bodies below it, so the list is no
   longer than before; on a collapsed body with parts (an expand) it leaves a
   list no shorter than before; on a body without parts the list keeps its
   length. *)
C21_CollapseShrinks ==
  [][CollapseStep =>
       IF body[CurrentBody].parts = 0 THEN idxlen' = idxlen
       ELSE IF ~body[CurrentBody].collapsed
       THEN idxlen' = idxlen - Cardinality(ListedBelow(CurrentBody))
       ELSE idxlen' >= idxlen]_vars

\* A collapse has shortened the list: a listed collapsed body has a part that
\* was listed (its aptr is set) and is not listed now.
C21_Witness ==
  /\ pc = "menu"
  /\ \E b \in DOMAIN body :
       /\ HasEntry(b)
       /\ body[b].collapsed
       /\ body[b].parts # 0
       /\ body[body[b].parts].aptr # -1
       /\ ~HasEntry(body[b].parts)

\* After two calls the flags and the entry list are those after the first.
SecondCallChangesNothing ==
  /\ hist.log[2].flags = hist.log[1].flags
  /\ hist.log[2].list = hist.log[1].list
  /\ CollapsedFlags(body) = hist.log[1].flags

(* C22 as stated: attach_collapse applied twice in a row to the same node
   with the same arguments, whatever they are, leaves the same collapsed
   flags on every body, and the same rebuilt entry list, as applying it once
   (digest_collapse set or not). *)
C22_Original ==
  Len(hist.log) = 2 => SecondCallChangesNothing

(* C22: attach_collapse applied twice in a row to the same node with the same
   arguments leaves the same collapsed flags on every body, and the same
   rebuilt entry list, as applying it once, when the call is a collapse
   (collapse = 1) or is made with init = 1 (digest_collapse set or not). *)
C22_Idempotent ==
  (Len(hist.log) = 2 /\ (hist.call.args.collapse \/ hist.call.args.init))
    => SecondCallChangesNothing

\* Two calls have been made with (collapse 0, init 1) on a multipart/digest
\* with digest_collapse set, and the first call collapsed a part of it.
C22_Witness ==
  /\ Len(hist.log) = 2
  /\ hist.call.dc
  /\ body[hist.call.node].type = TYPEMULTIPART
  /\ StrCaseEq(body[hist.call.node].subtype, Str.digest)
  /\ body[hist.call.node].parts # 0
  /\ ~hist.call.args.collapse
  /\ hist.call.args.init
  /\ hist.log[1].flags[body[hist.call.node].parts]

(* C23: in the flattened list the first entry has level 0; of two adjacent
   entries the later one's level is at most the earlier one's plus 1, and it
   is exactly one more exactly when the later entry's body is the first part
   of the earlier entry's body; the parts of a multipart that was descended
   through are at the level the multipart was visited at. *)
C23_LevelSteps ==
  pc = "flattened" =>
    /\ idxlen > 0 => idx[0].level = 0
    /\ \A i \in 0..(idxlen - 2) :
         /\ idx[i + 1].level <= idx[i].level + 1
         /\ (idx[i + 1].level = idx[i].level + 1)
              <=> (body[idx[i].content].parts = idx[i + 1].content)
    /\ \A b \in DOMAIN body :
         (C2_Visited(b) /\ ~HasEntry(b)) =>
           \A p \in Chain(body, body[b].parts) :
             \A i \in EntriesOf(p) : idx[i].level = C2_Level(b)

\* The root was descended through, its first part is listed at level 0 with a
\* part of its own at level 1, and the next part of the root is back at
\* level 0.
C23_Witness ==
  /\ pc = "flattened"
  /\ ~HasEntry(1)
  /\ idxlen = 3
  /\ idx[0].level = 0
  /\ idx[1].level = 1
  /\ idx[1].content = body[idx[0].content].parts
  /\ idx[2].level = 0

\* The type of the nearest body above b that is a multipart with an entry
\* ("top": none).
RECURSIVE NearestListedMultipart(_)
NearestListedMultipart(b) ==
  LET p == ParentOf(body, b)
  IN IF p = 0 THEN "top"
     ELSE IF HasEntry(p) /\ body[p].type = TYPEMULTIPART THEN body[p].type
     ELSE NearestListedMultipart(p)

(* C24 as stated: the parent_type of every entry is the type of the nearest
   enclosing multipart that has an entry itself, or the top-level sentinel
   when there is none; the parts of a top-level multipart that was descended
   through carry the sentinel. *)
C24_Original ==
  pc = "flattened" =>
    \A i \in 0..(idxlen - 1) :
      idx[i].parent_type = NearestListedMultipart(idx[i].content)

(* C24 amended: the parent_type of every entry is the type of the body whose
   parts chain the entry's body is on, whether that body has an entry or was
   descended through and whether it is a multipart or a message, and the
   top-level sentinel for a body on the top-level chain. *)
C24_ParentType ==
  pc = "flattened" =>
    \A i \in 0..(idxlen - 1) :
      idx[i].parent_type = EnclosingType(idx[i].content)

\* The root multipart was descended through and its first part is listed with
\* parent_type multipart.
C24_Witness ==
  /\ pc = "flattened"
  /\ ~HasEntry(1)
  /\ body[1].type = TYPEMULTIPART
  /\ idxlen > 0
  /\ idx[0].content = body[1].parts
  /\ idx[0].parent_type = TYPEMULTIPART

(* C25: ATTACH_COLLAPSE on an entry whose body has parts flips the collapsed
   flag of that body, changes the collapsed flag of no body outside its
   subtree, and rebuilds the index (the menu has as many lines as entries and
   the cursor is still on that body); on an entry whose body has no parts it
   says "There are no subparts to show!" and changes no flag, no entry and not
   the cursor. *)
C25_CollapseFrame ==
  [][CollapseStep =>
       LET b == CurrentBody
       IN IF body[b].parts = 0
          THEN /\ hist'.message = "There are no subparts to show!"
               /\ body' = body
               /\ idx' = idx /\ idxlen' = idxlen /\ idxmax' = idxmax
               /\ menu' = menu
          ELSE /\ body'[b].collapsed = ~body[b].collapsed
               /\ \A o \in DOMAIN body :
                    (o # b /\ o \notin Descendants(b)) =>
                      body'[o].collapsed = body[o].collapsed
               /\ menu'.max = idxlen'
               /\ menu'.current = menu.current
               /\ idx'[menu'.current].content = b
               /\ \A i \in 0..(idxlen' - 1) : body'[idx'[i].content].aptr = i]_vars

\* The operation has opened a multipart/digest under the cursor with
\* digest_collapse set, so that its part is collapsed and it is not; the body
\* has a body after it, which is listed.
C25_Witness ==
  /\ pc = "menu"
  /\ hist.message = ""
  /\ body[CurrentBody].parts # 0
  /\ ~body[CurrentBody].collapsed
  /\ body[body[CurrentBody].parts].collapsed
  /\ body[CurrentBody].next # 0
  /\ HasEntry(body[CurrentBody].next)

\* One of the three walks has been made.
Walked == pc \in {"saved", "piped", "printed"}

\* What is done with a part that is processed: it is written to a file,
\* piped or copied to the command, or handed to its mailcap print command.
Outputs == {"write", "copy", "pipe", "mailcap"}

\* The parts the log has one of the events evs for, in the order of the log.
RECURSIVE PartsOf(_, _)
PartsOf(log, evs) ==
  IF log = <<>> THEN <<>>
  ELSE IF Head(log).ev \in evs
  THEN <<Head(log).part>> \o PartsOf(Tail(log), evs)
  ELSE PartsOf(Tail(log), evs)

\* The bodies of S in document order: the bodies are numbered in that order.
RECURSIVE InDocumentOrder(_)
InDocumentOrder(S) ==
  IF S = {} THEN <<>>
  ELSE LET b == CHOOSE x \in S : \A y \in S : x <= y
       IN <<b>> \o InDocumentOrder(S \ {b})

\* The operation was not cut short: every save prompt was answered and every
\* write went well, the pipe command was given, the print question was
\* answered yes and the print was not refused.
WalkedToTheEnd ==
  LET c == hist.call
      chosen == IF c.tagprefix THEN TaggedParts ELSE {idx[c.current].content}
  IN /\ "answer" \in DOMAIN c => \A b \in chosen : c.answer[b] = "ok"
     /\ "command" \in DOMAIN c => c.command
     /\ "confirm" \in DOMAIN c =>
          c.confirm /\ hist.message # "I don't know how to print %s attachments!"

\* The parts C26 names: with the tag prefix the tagged bodies that have no
\* tagged body above them, in document order; without it the body under the
\* cursor.
PartsNamed ==
  IF hist.call.tagprefix THEN InDocumentOrder(TaggedParts)
  ELSE <<idx[hist.call.current].content>>

(* C26 as stated: SAVE, PIPE and PRINT with the tag prefix process exactly
   the tagged bodies that have no tagged body above them, each once, in
   document order, whether or not a body on the way is collapsed; without
   the tag prefix they process the body under the cursor and no other. *)
C26_Original ==
  Walked => PartsOf(hist.log, Outputs) = PartsNamed

(* C26: a SAVE, PIPE or PRINT that is not cut short (every save prompt is
   answered and every write goes well, the pipe command is given, the print
   question is answered yes and the print is not refused) takes up exactly
   the parts C26 names, each once, in document order, whether or not a body
   on the way is collapsed.  Every part taken up is written, piped, copied
   or handed to its mailcap command, but for a tagged part of a PRINT that
   fails the test of can_print, for which nothing is sent. *)
C26_TaggedWalk ==
  (Walked /\ WalkedToTheEnd) =>
    /\ PartsOf(hist.log, Outputs \cup {"skip"}) = PartsNamed
    /\ \A i \in DOMAIN hist.log :
         hist.log[i].ev = "skip" =>
           /\ pc = "printed" /\ hist.call.tagprefix
           /\ ~PrintTest(hist.call, hist.log[i].part)

\* A pipe with the tag prefix has processed two parts, one of them inside a
\* collapsed body and not listed.
C26_Witness ==
  /\ pc = "piped"
  /\ hist.call.tagprefix
  /\ Len(PartsOf(hist.log, Outputs)) = 2
  /\ \E i \in DOMAIN hist.log :
       /\ hist.log[i].ev = "copy"
       /\ hist.log[i].part \notin Listed(idx, idxlen)

\* The main loop holds an operation the view loop returned.
Pending == pc = "menu" /\ op # "OP_NULL"

(* C27: every operation the view loop returned to the main loop
   (ATTACH_COLLAPSE, CHECK_TRADITIONAL) is dispatched by the main loop: the
   next step is the handler of that operation, made once, and it leaves the
   main loop with no operation held, so that the next one is fetched from
   the menu. *)
C27_Dispatched ==
  [][ Pending =>
        /\ pc' = "menu" /\ op' = "OP_NULL"
        /\ IF op = "OP_ATTACH_COLLAPSE" THEN CollapseStep
           ELSE op = "OP_CHECK_TRADITIONAL" /\ OpCheckTraditional ]_vars

\* The content type of b is text/plain or application/postscript.
PlainOrPostscript(b) ==
  Kind(body[b].type, body[b].subtype) \in
    { Kind(TYPETEXT, Str.plain), Kind(TYPEAPPLICATION, Str.postscript) }

(* C28: a print of the part under the cursor with attach_split off, once the
   question is answered yes, is refused with "I don't know how to print %s
   attachments!" exactly when the part has no mailcap print entry, is neither
   text/plain nor application/postscript and cannot be decoded; a text/plain
   or application/postscript part is accepted without a mailcap entry. *)
C28_RawTypesAccepted ==
  (pc = "printed" /\ ~hist.call.tagprefix /\ ~hist.call.split /\ hist.call.confirm) =>
    LET b == idx[hist.call.current].content
    IN (hist.message = "I don't know how to print %s attachments!")
         <=> /\ ~rfc1524_mailcap_lookup(hist.call, b)
             /\ ~PlainOrPostscript(b)
             /\ ~mutt_can_decode(b)

(* The tree string of C29 for entry i, at level d: up[k] is the entry of the
   listed body above it at level k, which in a list made depth first is the
   last entry before i at level k. *)
TreeStringFor(i, d, up) ==
  IF d = 0 THEN <<>>
  ELSE [ j \in 1..(2 * d + 1) |->
           IF j = 2 * d + 1 THEN "RARROW"
           ELSE IF j = 2 * d THEN "HLINE"
           ELSE IF j = 2 * d - 1
           THEN IF body[idx[i].content].next # 0 THEN "LTEE" ELSE "LLCORNER"
           ELSE IF j % 2 = 0 THEN "006"
           ELSE IF body[idx[up[(j + 1) \div 2]].content].next # 0
           THEN "005" ELSE "006" ]

(* C29: after flatten the tree string of an entry at level 0 is empty; that
   of an entry at level d > 0 has 2d+1 bytes: for each level k in 1..d-1 the
   pair (5,6) if the listed body above it at level k has a next sibling and
   (6,6) if not, then LTEE if the entry's body has a next sibling and LLCORNER
   if not, then HLINE and RARROW. *)
C29_TreeString ==
  pc = "flattened" =>
    \A i \in 0..(idxlen - 1) :
      LET d == idx[i].level
          before == [k \in 1..(d - 1) |-> { j \in 0..(i - 1) : idx[j].level = k }]
      IN /\ \A k \in 1..(d - 1) : before[k] # {}
         /\ idx[i].tree =
              TreeStringFor(i, d, [k \in 1..(d - 1) |->
                                     CHOOSE j \in before[k] : \A h \in before[k] : h <= j])

\* The cursor at n is on an entry of a list that is not empty, and the entry
\* has a body.
CursorOnEntry(n) ==
  /\ idxlen > 0
  /\ menu.max = idxlen
  /\ 0 <= n /\ n < menu.max
  /\ idx[n].content # 0

(* C30: when the menu waits for input and when it is redrawn the entry list
   is not empty, menu.max is the number of entries and the cursor is on an
   entry that has a body; this holds for the redraws a SAVE with the tag
   prefix and attach_split makes with the cursor moved to the part it is
   about to save. *)
C30_CursorOnEntry ==
  /\ pc \in {"menu", "saved"} => CursorOnEntry(menu.current)
  /\ pc = "saved" =>
       \A i \in DOMAIN hist.log :
         hist.log[i].ev = "redraw" =>
           CursorOnEntry(idx[body[hist.log[i].part].aptr].num)
====
